---- MODULE Spec2Model ----
(***************************************************************************)
(* Model of src/renderer/lib/api/api.ts: the API request retry loop        *)
(* (doAPIRequest / apiRequest and the endpoint wrappers), the chunk        *)
(* transfer engine (uploadChunk / downloadChunk with the pause gate and    *)
(* the throttle handles), the createFolder gate and the metadata           *)
(* propagation fan-outs.                                                   *)
(*                                                                         *)
(* Every callback of the single-threaded event loop is one action.  A      *)
(* promise continuation that runs in the same turn of the loop (an await   *)
(* resumed by a resolve) is part of the action that settles the promise.   *)
(***************************************************************************)
EXTENDS Integers, Sequences, FiniteSets, TLC

----------------------------------------------------------------------------
(* Bounds of the model.  The retry limits are read from constants.json,    *)
(* whose values the model replaces by small ones.                          *)
maxRetryAPIRequest == 3
maxRetryUpload == 2
maxRetryDownload == 2

----------------------------------------------------------------------------
(* Strings the code searches in are sequences of words, so that            *)
(* toLowerCase and indexOf are computed and not assumed.                   *)

Lower(w) ==
    CASE w = "Invalid" -> "invalid"
      [] w = "API" -> "api"
      [] w = "Key" -> "key"
      [] w = "Storage" -> "storage"
      [] OTHER -> w

toLowerCase(msg) == [i \in DOMAIN msg |-> Lower(msg[i])]

(* String.prototype.indexOf: the first position of pat in msg, or -1 *)
indexOf(msg, pat) ==
    LET hits == {i \in 1..(Len(msg) - Len(pat) + 1) :
                    \A j \in 1..Len(pat) : msg[i + j - 1] = pat[j]}
    IN  IF hits = {} THEN -1 ELSE CHOOSE i \in hits : \A k \in hits : i <= k

Undefined == "undefined"

(* A message field: absent (typeof is not "string") or a string of words *)
NoMessage == [str |-> FALSE, words |-> <<>>]
Msg(w) == [str |-> TRUE, words |-> w]

Messages ==
    { NoMessage,
      Msg(<<"Invalid", "API", "Key">>),
      Msg(<<"api", "key", "not", "found">>),
      Msg(<<"Storage", "limit", "reached">>),
      Msg(<<"some", "error">>) }

(* A code field: Undefined when absent *)
Codes ==
    { Undefined, "internal_error", "api_key_not_found", "folder_not_found",
      "file_not_found", "other_code" }

(* a response body: not JSON at all, or the envelope {status, code, message,
   data: {existsUUID}} *)
InvalidJSON ==
    [json |-> FALSE, status |-> FALSE, code |-> Undefined, message |-> NoMessage,
     existsUUID |-> Undefined]
Envelopes ==
    [json : {TRUE}, status : BOOLEAN, code : Codes, message : Messages,
     existsUUID : {Undefined, "x1"}]
Bodies == {InvalidJSON} \cup Envelopes

(* the bodies the transport answers with: one of each shape the retry      *)
(* loops tell apart                                                        *)
WireBodies ==
    { InvalidJSON,
      [json |-> TRUE, status |-> TRUE, code |-> Undefined, message |-> NoMessage,
       existsUUID |-> Undefined],
      [json |-> TRUE, status |-> FALSE, code |-> "internal_error", message |-> Msg(<<"some", "error">>),
       existsUUID |-> Undefined],
      [json |-> TRUE, status |-> FALSE, code |-> "other_code", message |-> Msg(<<"some", "error">>),
       existsUUID |-> Undefined],
      [json |-> TRUE, status |-> FALSE, code |-> "other_code", message |-> Msg(<<"Storage", "limit", "reached">>),
       existsUUID |-> Undefined],
      [json |-> TRUE, status |-> FALSE, code |-> Undefined, message |-> NoMessage,
       existsUUID |-> Undefined] }

----------------------------------------------------------------------------
(* Request payloads: a JS object is the sequence of its (key, value)       *)
(* pairs; JSON.stringify writes them in that order.                        *)

RECURSIVE stringifyPairs(_)
stringifyPairs(d) ==
    IF d = <<>> THEN <<>>
    ELSE <<d[1][1], ":", d[1][2]>>
         \o (IF Len(d) > 1 THEN <<",">> ELSE <<>>)
         \o stringifyPairs(Tail(d))

JSONstringify(d) == <<"{">> \o stringifyPairs(d) \o <<"}">>

(* bufferToHash(bytes, "SHA-512"): injective on the byte strings of the model *)
bufferToHash(bytes) == <<"sha512", bytes>>

DataSet ==
    { <<>>,
      << <<"uuid", "u1">> >>,
      << <<"email", "a@b">>, <<"password", "p">> >> }

Methods == {"GET", "POST"}

(* the bytes doAPIRequest writes as the body of one attempt *)
apiBody(m, d) == IF m = "POST" THEN JSONstringify(d) ELSE <<>>

(* the Checksum header doAPIRequest computes once per call *)
apiChecksumOfDefault(d) == bufferToHash(JSONstringify(<<>>))
apiChecksum(d) == bufferToHash(JSONstringify(d))

----------------------------------------------------------------------------
(* State.                                                                  *)
(*  Transport (one call of doAPIRequest, uploadChunk or downloadChunk):    *)
(*    kind, method, data, includeRaw, from, location, queryParams, chunk   *)
(*                 the arguments of the call                               *)
(*    networkingSettings   what db.get("networkingSettings") gave the call *)
(*    rates        the rate of throttleGroupUpload and of                  *)
(*                 throttleGroupDownload, in bytes per second              *)
(*    online       window.navigator.onLine                                 *)
(*    db           the configuration store's flags                         *)
(*    locationPaused   isSyncLocationPaused(location.uuid)                 *)
(*    pc           where the call is before its retry loop                 *)
(*    checksum     the Checksum header computed for the call               *)
(*    currentTries, timers   the loop's counter and its pending            *)
(*                 setTimeout(doRequest) callbacks                         *)
(*    reqs         the HTTP requests issued, in order                      *)
(*    httpCount    how many were issued                                    *)
(*    promise      the promise the call returned                           *)
VARIABLES kind, method, data, includeRaw, from, location, queryParams, chunk,
          networkingSettings, rates,
          online, db, locationPaused,
          pc, checksum, currentTries, timers, reqs, httpCount, promise

callArgs == <<kind, method, data, includeRaw, from, location, queryParams, chunk,
              networkingSettings>>
envVars == <<online, db, locationPaused>>
loopVars == <<pc, checksum, currentTries, timers, reqs, httpCount, promise>>
transportVars == <<callArgs, envVars, loopVars, rates>>


(*  One operation built on apiRequest (an endpoint wrapper), with the      *)
(*  metadata propagation it triggers:                                      *)
(*    op, opType, opRaw   the wrapper called, the item type, includeRaw    *)
(*    numUsers, numLinks  the share recipients and public links the server *)
(*                 holds for the parent (or, for a rename, the item)       *)
(*    contents     what the server holds inside the folder operated on     *)
(*    opPc         where the operation is                                  *)
(*    opResult     what the operation returned or threw                    *)
(*    logoutCalls  calls of logout()                                       *)
(*    primaryStatus   what apiRequest gave for the primary endpoint        *)
(*    settledBy    the answer on which the wrapper itself returned or      *)
(*                 threw                                                   *)
(*    prop         shareCheckDone, linkCheckDone, resolved and the         *)
(*                 interval of one checkIfItem... invocation               *)
(*    share, shareTasks, link, linkTasks   its two fan-outs                *)
(*    sem          createFolderSemaphore                                   *)
VARIABLES op, opType, opRaw, numUsers, numLinks, contents,
          opPc, opResult, logoutCalls, primaryStatus, settledBy,
          prop, share, shareTasks, link, linkTasks,
          sem

opArgs == <<op, opType, opRaw, numUsers, numLinks, contents>>
opState == <<opPc, opResult, logoutCalls, primaryStatus, settledBy>>
propVars == <<prop, share, shareTasks, link, linkTasks>>
opsVars == <<opArgs, opState, propVars>>

(*  Concurrent createFolder calls against one server:                      *)
(*    cf           each call's position, response and result               *)
(*    serverFolders   the folders the server holds under the parent        *)
VARIABLES cf, serverFolders

folderVars == <<cf, serverFolders>>

(*  One run of the code that builds itemsToShare or itemsToLink:           *)
(*    listing      the contents it is given, which list it builds, and     *)
(*                 the list (or that a decrypt threw)                      *)
VARIABLES listing

(*  Concurrent uploadChunk / downloadChunk calls on the two module-wide    *)
(*  governors:                                                             *)
(*    chunkCalls   each call's direction, source and position              *)
VARIABLES chunkCalls

vars == <<transportVars, opsVars, sem, folderVars, listing, chunkCalls>>

nonTransport == <<opsVars, sem, folderVars, listing, chunkCalls>>
nonOps == <<transportVars, folderVars, listing, chunkCalls>>
nonFolder == <<transportVars, opsVars, listing, chunkCalls>>
nonListing == <<transportVars, opsVars, sem, folderVars, chunkCalls>>
nonChunks == <<callArgs, envVars, loopVars, opsVars, sem, folderVars, listing>>

Pending ==
    [state |-> "pending", error |-> "none", body |-> InvalidJSON, raw |-> FALSE,
     buffer |-> <<>>]
Resolved(b, r) ==
    [state |-> "resolved", error |-> "none", body |-> b, raw |-> r, buffer |-> <<>>]
(* a rejection: the error's kind, and the server message when it is one *)
Rejected(e, b) ==
    [state |-> "rejected", error |-> e, body |-> b, raw |-> FALSE, buffer |-> <<>>]

(* resolve and reject of a settled promise do nothing *)
resolve(p, b, r) == IF p.state = "pending" THEN Resolved(b, r) ELSE p
reject(p, e, b) == IF p.state = "pending" THEN Rejected(e, b) ELSE p

maxRetry(k) ==
    CASE k = "api" -> maxRetryAPIRequest
      [] k = "upload" -> maxRetryUpload
      [] OTHER -> maxRetryDownload

(* the loop's exit test: currentTries >= constants.maxRetry... *)
retriesExhaustedOffByOne(k, tries) == tries > maxRetry(k)
retriesExhausted(k, tries) == tries >= maxRetry(k)

FromValues == {"sync", "download", "upload", "other"}

(* from.indexOf(word) !== -1, for the values of FromValues *)
fromHas(f, word) == f = word

(* the db key the pause gate reads for a transfer that is not from "sync" *)
pauseKeyGlobal(f) == "paused"
pauseKey(f) ==
    IF fromHas(f, "download") THEN "downloadPaused"
    ELSE IF fromHas(f, "upload") THEN "uploadPaused"
    ELSE "paused"

(* getPausedStatus: whether the flags it reads hold the transfer back *)
pausedStatus(f, loc, store, locPaused) ==
    IF f = "sync"
    THEN IF loc # Undefined THEN store["paused"] \/ locPaused
         ELSE store["paused"]
    ELSE store[pauseKey(f)]

(* a request as issued: its state, its throttle handle, what went on the   *)
(* wire, the buffers received so far (downloadChunk), whether the body     *)
(* has gone through the throttle (uploadChunk), and whether the transfer's pause flags were set at that moment    *)
NewReq(thr, sum, body) ==
    [st |-> "open", throttle |-> thr, checksum |-> sum, body |-> body,
     res |-> <<>>, sent |-> FALSE,
     paused |-> kind # "api" /\ pausedStatus(from, location, db, locationPaused),
     try |-> currentTries + 1]

(* The body of doRequest, entered with tm callbacks still pending: wait    *)
(* while offline, give up at the retry limit, otherwise issue one request. *)
doRequestCountsFirst(tm, thr, sum, body) ==
    IF retriesExhausted(kind, currentTries)
    THEN /\ promise' = reject(promise, "MaxRetries", InvalidJSON)
         /\ timers' = tm
         /\ UNCHANGED <<currentTries, reqs, httpCount>>
    ELSE IF ~online
    THEN /\ timers' = tm + 1
         /\ UNCHANGED <<currentTries, reqs, httpCount, promise>>
    ELSE /\ currentTries' = currentTries + 1
         /\ reqs' = Append(reqs, NewReq(thr, sum, body))
         /\ httpCount' = httpCount + 1
         /\ timers' = tm
         /\ UNCHANGED promise
doRequest(tm, thr, sum, body) ==
    IF ~online
    THEN /\ timers' = tm + 1
         /\ UNCHANGED <<currentTries, reqs, httpCount, promise>>
    ELSE IF retriesExhausted(kind, currentTries)
    THEN /\ promise' = reject(promise, "MaxRetries", InvalidJSON)
         /\ timers' = tm
         /\ UNCHANGED <<currentTries, reqs, httpCount>>
    ELSE /\ currentTries' = currentTries + 1
         /\ reqs' = Append(reqs, NewReq(thr, sum, body))
         /\ httpCount' = httpCount + 1
         /\ timers' = tm
         /\ UNCHANGED promise

setReq(i, s) == [reqs EXCEPT ![i].st = s]
(* variant of the next definition that leaves the handle as it is *)
setReqKeepsThrottle(i, s) == [reqs EXCEPT ![i].st = s]
(* throttle.destroy() of attempt i, with the request's new state *)
setReqDestroy(i, s) == [reqs EXCEPT ![i].st = s, ![i].throttle = "destroyed"]

----------------------------------------------------------------------------
(* doAPIRequest *)

(* bufferToHash(...).then: the checksum is known, doRequest() runs *)
ApiStart ==
    /\ kind = "api" /\ pc = "start"
    /\ pc' = "loop"
    /\ checksum' = apiChecksum(data)
    /\ doRequest(timers, "none", apiChecksum(data), apiBody(method, data))
    /\ UNCHANGED <<callArgs, envVars>>
    /\ UNCHANGED <<rates, nonTransport>>

(* a setTimeout(doRequest, retryAPIRequestTimeout) callback runs *)
ApiTimer ==
    /\ kind = "api" /\ pc = "loop" /\ timers > 0
    /\ doRequest(timers - 1, "none", checksum, apiBody(method, data))
    /\ UNCHANGED <<callArgs, envVars, pc, checksum>>
    /\ UNCHANGED <<rates, nonTransport>>

(* the response callback, statusCode !== 200: retry later; the body is     *)
(* not read                                                                *)
ApiResponseNot200(i) ==
    /\ kind = "api" /\ reqs[i].st = "open"
    /\ reqs' = setReq(i, "stale")
    /\ timers' = timers + 1
    /\ UNCHANGED <<callArgs, envVars, pc, checksum, currentTries, httpCount, promise>>
    /\ UNCHANGED <<rates, nonTransport>>

(* the response callback, statusCode 200: the data and end handlers are set *)
ApiResponse200(i) ==
    /\ kind = "api" /\ reqs[i].st = "open"
    /\ reqs' = setReq(i, "streaming")
    /\ UNCHANGED <<callArgs, envVars, pc, checksum, currentTries, timers, httpCount, promise>>
    /\ UNCHANGED <<rates, nonTransport>>

(* response.on("end"): parse; internal_error retries, anything else settles *)
ApiResponseEnd(i, b) ==
    /\ kind = "api" /\ reqs[i].st = "streaming"
    /\ reqs' = setReq(i, "closed")
    /\ IF ~b.json
       THEN /\ promise' = reject(promise, "DecodeError", InvalidJSON)
            /\ UNCHANGED timers
       ELSE IF b.code = "internal_error"
       THEN /\ timers' = timers + 1
            /\ UNCHANGED promise
       ELSE /\ promise' = resolve(promise, b, includeRaw)
            /\ UNCHANGED timers
    /\ UNCHANGED <<callArgs, envVars, pc, checksum, currentTries, httpCount>>
    /\ UNCHANGED <<rates, nonTransport>>

(* req.on("error"): also what a request destroyed before its response      *)
(* emits ("socket hang up")                                                *)
ApiRequestError(i) ==
    /\ kind = "api" /\ reqs[i].st \in {"open", "destroyed"}
    /\ reqs' = setReq(i, "closed")
    /\ timers' = timers + 1
    /\ UNCHANGED <<callArgs, envVars, pc, checksum, currentTries, httpCount, promise>>
    /\ UNCHANGED <<rates, nonTransport>>

(* req.on("timeout"): req.destroy() and retry later *)
ApiRequestTimeout(i) ==
    /\ kind = "api" /\ reqs[i].st \in {"open", "streaming", "stale"}
    /\ reqs' = setReq(i, IF reqs[i].st = "open" THEN "destroyed" ELSE "closed")
    /\ timers' = timers + 1
    /\ UNCHANGED <<callArgs, envVars, pc, checksum, currentTries, httpCount, promise>>
    /\ UNCHANGED <<rates, nonTransport>>

----------------------------------------------------------------------------
(* The rate governors.  A Kbps setting is a JavaScript number: it is kept  *)
(* here in tenths, so that Math.floor has something to cut.                *)

(* new ThrottleGroup({ rate: 1024 * 1024 * 1024 }) *)
InitialRate == 1024 * 1024 * 1024
InitialRates == [upload |-> InitialRate, download |-> InitialRate]

(* let bps = 122070 * 1024 *)
DefaultBps == 122070 * 1024

(* networkingSettings: null, or an object with the two limits *)
NullSettings == [obj |-> FALSE, uploadKbps |-> 0, downloadKbps |-> 0]
SettingsSet ==
    { NullSettings,
      [obj |-> TRUE, uploadKbps |-> 15, downloadKbps |-> 7],
      [obj |-> TRUE, uploadKbps |-> 0, downloadKbps |-> -3] }

(* Math.floor(kbps * 1024), kbps given in tenths *)
floorTimes1024(tenths) == (tenths * 1024) \div 10

(* the rate the transfer asks for *)
bpsAnySource(settings, f, tenths) ==
    IF settings.obj /\ tenths > 0 THEN floorTimes1024(tenths) ELSE DefaultBps
bps(settings, f, tenths) ==
    IF settings.obj /\ f = "sync" /\ tenths > 0
    THEN floorTimes1024(tenths)
    ELSE DefaultBps

(* throttleGroupUpload.setRate / throttleGroupDownload.setRate *)
setRate(group, r) == [rates EXCEPT ![group] = r]

----------------------------------------------------------------------------
(* The pause gate of uploadChunk and downloadChunk *)

(* One poll of getPausedStatus: the flags are read (readOK) or the read    *)
(* fails; TRUE when the gate lets the transfer pass, otherwise the poll is *)
(* repeated 1 s later.                                                     *)
gatePasses(readOK) ==
    readOK /\ ~pausedStatus(from, location, db, locationPaused)

----------------------------------------------------------------------------
(* uploadChunk *)

QuerySet == { << <<"uuid", "u1">>, <<"index", "0">> >> }
Chunks == { <<"b1">>, <<"b1", "b2">> }

(* queryParams + "&hash=" + encodeURIComponent(chunkHash), parsed by       *)
(* URLSearchParams into its (key, value) pairs                             *)
withHash(qp, c) == Append(qp, <<"hash", bufferToHash(c)>>)

(* the Checksum header of an upload *)
uploadChecksum(qp, c) == bufferToHash(JSONstringify(withHash(qp, c)))

(* obj.message.toLowerCase().indexOf("storage") !== -1 *)
mentionsStorageCaseSensitive(msg) == indexOf(msg.words, <<"storage">>) # -1
mentionsStorage(msg) == indexOf(toLowerCase(msg.words), <<"storage">>) # -1

(* variant in which the quota flag is not consulted *)
UploadStartIgnoresQuota ==
    /\ kind = "upload" /\ pc = "start"
    /\ pc' = "gate"
    /\ UNCHANGED promise
    /\ UNCHANGED <<callArgs, envVars, checksum, currentTries, timers, reqs, httpCount>>
    /\ UNCHANGED <<rates, nonTransport>>

(* the reads of line 1325 are in: refuse when the quota flag is set,       *)
(* otherwise start polling the pause gate                                  *)
UploadStart ==
    /\ kind = "upload" /\ pc = "start"
    /\ IF db["maxStorageReached"]
       THEN /\ promise' = reject(promise, "MaxStorageReached", InvalidJSON)
            /\ pc' = "done"
       ELSE /\ pc' = "gate"
            /\ UNCHANGED promise
    /\ UNCHANGED <<callArgs, envVars, checksum, currentTries, timers, reqs, httpCount>>
    /\ UNCHANGED <<rates, nonTransport>>

(* a poll of the gate *)
UploadGatePoll(readOK) ==
    /\ kind = "upload" /\ pc = "gate"
    /\ pc' = IF gatePasses(readOK) THEN "hashing" ELSE "gate"
    /\ UNCHANGED <<callArgs, envVars, checksum, currentTries, timers, reqs, httpCount, promise>>
    /\ UNCHANGED <<rates, nonTransport>>

(* bufferToHash of the parsed parameters is in: doRequest() runs *)
UploadHashed ==
    /\ kind = "upload" /\ pc = "hashing"
    /\ pc' = "loop"
    /\ checksum' = uploadChecksum(queryParams, chunk)
    /\ rates' = setRate("upload", bps(networkingSettings, from, networkingSettings.uploadKbps))
    /\ doRequest(timers, "live", uploadChecksum(queryParams, chunk), chunk)
    /\ UNCHANGED <<callArgs, envVars>>
    /\ UNCHANGED nonTransport

(* a setTimeout(doRequest, retryUploadTimeout) callback runs *)
UploadTimer ==
    /\ kind = "upload" /\ pc = "loop" /\ timers > 0
    /\ doRequest(timers - 1, "live", checksum, chunk)
    /\ UNCHANGED <<callArgs, envVars, pc, checksum>>
    /\ UNCHANGED <<rates, nonTransport>>

(* the response callback, statusCode !== 200: destroy the throttle, retry  *)
UploadResponseNot200(i) ==
    /\ kind = "upload" /\ reqs[i].st = "open"
    /\ reqs' = setReqDestroy(i, "stale")
    /\ timers' = timers + 1
    /\ UNCHANGED <<callArgs, envVars, pc, checksum, currentTries, httpCount, promise>>
    /\ UNCHANGED <<rates, nonTransport>>

(* The chunk has gone through the progress meter and the throttle into    *)
(* the request: the throttle's "end" handler destroys it.                  *)
UploadBodyWritten(i) ==
    /\ kind = "upload" /\ reqs[i].st = "open"
    /\ ~reqs[i].sent
    /\ reqs' = [reqs EXCEPT ![i].sent = TRUE, ![i].throttle = "destroyed"]
    /\ UNCHANGED <<callArgs, envVars, pc, checksum, currentTries, timers, httpCount, promise>>
    /\ UNCHANGED <<rates, nonTransport>>

(* the response callback, statusCode 200: the server answers 200 to a      *)
(* chunk it has received whole                                             *)
UploadResponse200(i) ==
    /\ kind = "upload" /\ reqs[i].st = "open"
    /\ reqs[i].sent
    /\ reqs' = setReq(i, "streaming")
    /\ UNCHANGED <<callArgs, envVars, pc, checksum, currentTries, timers, httpCount, promise>>
    /\ UNCHANGED <<rates, nonTransport>>

(* response.on("end"): a body that does not parse, or a status=false body  *)
(* without a message (obj.message.toLowerCase throws), rejects with the    *)
(* exception                                                               *)
UploadResponseEnd(i, b) ==
    /\ kind = "upload" /\ reqs[i].st = "streaming"
    /\ IF ~b.json \/ (~b.status /\ ~b.message.str)
       THEN /\ promise' = reject(promise, "DecodeError", InvalidJSON)
            /\ reqs' = setReq(i, "closed")
            /\ UNCHANGED db
       ELSE IF ~b.status
       THEN /\ db' = IF mentionsStorage(b.message)
                     THEN [db EXCEPT !["paused"] = TRUE, !["maxStorageReached"] = TRUE]
                     ELSE db
            /\ reqs' = setReqDestroy(i, "closed")
            /\ promise' = reject(promise, "ServerMessage", b)
       ELSE /\ promise' = resolve(promise, b, FALSE)
            /\ reqs' = setReq(i, "closed")
            /\ UNCHANGED db
    /\ UNCHANGED <<callArgs, online, locationPaused, pc, checksum,
                   currentTries, timers, httpCount>>
    /\ UNCHANGED <<rates, nonTransport>>

(* variant in which a transport error is retried, as downloadChunk does *)
UploadRequestErrorRetries(i) ==
    /\ kind = "upload" /\ reqs[i].st \in {"open", "destroyed"}
    /\ reqs' = setReqDestroy(i, "closed")
    /\ timers' = timers + 1
    /\ UNCHANGED <<callArgs, envVars, pc, checksum, currentTries, httpCount, promise>>
    /\ UNCHANGED <<rates, nonTransport>>

(* req.on("error") *)
UploadRequestError(i) ==
    /\ kind = "upload" /\ reqs[i].st \in {"open", "destroyed"}
    /\ reqs' = setReqDestroy(i, "closed")
    /\ promise' = reject(promise, "TransportError", InvalidJSON)
    /\ UNCHANGED <<callArgs, envVars, pc, checksum, currentTries, timers, httpCount>>
    /\ UNCHANGED <<rates, nonTransport>>

(* req.on("timeout") *)
UploadRequestTimeout(i) ==
    /\ kind = "upload" /\ reqs[i].st \in {"open", "streaming", "stale"}
    /\ reqs' = setReqDestroy(i, IF reqs[i].st = "open" THEN "destroyed" ELSE "closed")
    /\ promise' = reject(promise, "Timeout", InvalidJSON)
    /\ UNCHANGED <<callArgs, envVars, pc, checksum, currentTries, timers, httpCount>>
    /\ UNCHANGED <<rates, nonTransport>>

----------------------------------------------------------------------------
(* downloadChunk *)

(* db.get("networkingSettings") is in: start polling the pause gate *)
DownloadStart ==
    /\ kind = "download" /\ pc = "start"
    /\ pc' = "gate"
    /\ UNCHANGED <<callArgs, envVars, checksum, currentTries, timers, reqs, httpCount, promise>>
    /\ UNCHANGED <<rates, nonTransport>>

(* a poll of the gate; when it passes, the await resumes in the same turn  *)
(* and doRequest() runs                                                    *)
DownloadGatePoll(readOK) ==
    /\ kind = "download" /\ pc = "gate"
    /\ IF gatePasses(readOK)
       THEN /\ pc' = "loop"
            /\ rates' = setRate("download",
                                bps(networkingSettings, from, networkingSettings.downloadKbps))
            /\ doRequest(timers, "live", <<>>, <<>>)
       ELSE UNCHANGED <<pc, currentTries, timers, reqs, httpCount, promise, rates>>
    /\ UNCHANGED <<callArgs, envVars, checksum>>
    /\ UNCHANGED nonTransport

(* a setTimeout(doRequest, retryDownloadTimeout) callback runs *)
DownloadTimer ==
    /\ kind = "download" /\ pc = "loop" /\ timers > 0
    /\ doRequest(timers - 1, "live", <<>>, <<>>)
    /\ UNCHANGED <<callArgs, envVars, pc, checksum>>
    /\ UNCHANGED <<rates, nonTransport>>

(* request.on("response"), statusCode !== 200 *)
DownloadResponseNot200(i) ==
    /\ kind = "download" /\ reqs[i].st = "open"
    /\ reqs' = setReqDestroy(i, "stale")
    /\ timers' = timers + 1
    /\ UNCHANGED <<callArgs, envVars, pc, checksum, currentTries, httpCount, promise>>
    /\ UNCHANGED <<rates, nonTransport>>

(* request.on("response"), statusCode 200: the response is piped through   *)
(* the throttle                                                            *)
DownloadResponse200(i) ==
    /\ kind = "download" /\ reqs[i].st = "open"
    /\ reqs' = setReq(i, "streaming")
    /\ UNCHANGED <<callArgs, envVars, pc, checksum, currentTries, timers, httpCount, promise>>
    /\ UNCHANGED <<rates, nonTransport>>

(* the buffers in which the stored chunk reaches an attempt, in the order  *)
(* of their arrival                                                        *)
ServerBuffers == << <<"x">>, <<"y", "z">> >>

(* Buffer.concat(list): the bytes of the buffers, one buffer after another *)
RECURSIVE BufferConcat(_)
BufferConcat(list) ==
    IF list = <<>> THEN <<>> ELSE Head(list) \o BufferConcat(Tail(list))

(* nodeBufferToArrayBuffer(buf): an ArrayBuffer holding the same bytes *)
nodeBufferToArrayBuffer(buf) == [k \in 1..Len(buf) |-> buf[k]]

(* the call resolved with an ArrayBuffer *)
ResolvedBuffer(buf) ==
    [state |-> "resolved", error |-> "none", body |-> InvalidJSON, raw |-> TRUE,
     buffer |-> buf]

(* the throttled stream's "data": res.push(chunk) *)
DownloadData(i) ==
    /\ kind = "download" /\ reqs[i].st = "streaming"
    /\ Len(reqs[i].res) < Len(ServerBuffers)
    /\ reqs' = [reqs EXCEPT ![i].res = Append(@, ServerBuffers[Len(@) + 1])]
    /\ UNCHANGED <<callArgs, envVars, pc, checksum, currentTries, timers, httpCount, promise>>
    /\ UNCHANGED <<rates, nonTransport>>

(* the throttled stream's "end": resolve with the bytes received *)
DownloadEnd(i) ==
    /\ kind = "download" /\ reqs[i].st = "streaming"
    /\ reqs' = setReqDestroy(i, "closed")
    /\ promise' = IF promise.state = "pending"
                  THEN ResolvedBuffer(nodeBufferToArrayBuffer(BufferConcat(reqs[i].res)))
                  ELSE promise
    /\ UNCHANGED <<callArgs, envVars, pc, checksum, currentTries, timers, httpCount>>
    /\ UNCHANGED <<rates, nonTransport>>

(* response.on("error"): also what a response destroyed mid-stream emits *)
DownloadResponseError(i) ==
    /\ kind = "download" /\ reqs[i].st \in {"streaming", "aborted"}
    /\ reqs' = setReqDestroy(i, "closed")
    /\ timers' = timers + 1
    /\ UNCHANGED <<callArgs, envVars, pc, checksum, currentTries, httpCount, promise>>
    /\ UNCHANGED <<rates, nonTransport>>

(* request.on("error") *)
DownloadRequestError(i) ==
    /\ kind = "download" /\ reqs[i].st \in {"open", "destroyed"}
    /\ reqs' = setReqDestroy(i, "closed")
    /\ timers' = timers + 1
    /\ UNCHANGED <<callArgs, envVars, pc, checksum, currentTries, httpCount, promise>>
    /\ UNCHANGED <<rates, nonTransport>>

(* request.on("timeout"): destroy the throttle and the request, retry *)
DownloadRequestTimeout(i) ==
    /\ kind = "download" /\ reqs[i].st \in {"open", "streaming", "stale"}
    /\ reqs' = setReqDestroy(i, CASE reqs[i].st = "open" -> "destroyed"
                                  [] reqs[i].st = "streaming" -> "aborted"
                                  [] OTHER -> "closed")
    /\ timers' = timers + 1
    /\ UNCHANGED <<callArgs, envVars, pc, checksum, currentTries, httpCount, promise>>
    /\ UNCHANGED <<rates, nonTransport>>

----------------------------------------------------------------------------
(* The rest of the application *)

(* window.navigator.onLine changes *)
SetOnline ==
    /\ online' = ~online
    /\ UNCHANGED <<callArgs, db, locationPaused, loopVars>>
    /\ UNCHANGED <<rates, nonTransport>>

PauseKeys == {"paused", "uploadPaused", "downloadPaused"}

(* db.set(key, v) of a pause flag by the UI or the sync engine *)
WriteFlag(key, v) ==
    /\ kind # "api"
    /\ db' = [db EXCEPT ![key] = v]
    /\ UNCHANGED <<callArgs, online, locationPaused, loopVars>>
    /\ UNCHANGED <<rates, nonTransport>>

(* the sync engine pauses or resumes the transfer's sync location *)
WriteLocationPaused ==
    /\ kind # "api"
    /\ from = "sync" /\ location # Undefined
    /\ locationPaused' = ~locationPaused
    /\ UNCHANGED <<callArgs, online, db, loopVars>>
    /\ UNCHANGED <<rates, nonTransport>>

----------------------------------------------------------------------------
NoFlags ==
    [paused |-> FALSE, uploadPaused |-> FALSE, downloadPaused |-> FALSE,
     maxStorageReached |-> FALSE]

LoopInit ==
    /\ pc = "start"
    /\ checksum = <<>>
    /\ currentTries = 0
    /\ timers = 0
    /\ reqs = <<>>
    /\ httpCount = 0
    /\ promise = Pending

ApiInit ==
    /\ kind = "api"
    /\ method \in Methods
    /\ data \in DataSet
    /\ includeRaw \in BOOLEAN
    /\ from = "sync" /\ location = Undefined /\ queryParams = <<>> /\ chunk = <<>>
    /\ networkingSettings = NullSettings
    /\ db = NoFlags /\ locationPaused = FALSE

TransferInit ==
    /\ kind \in {"upload", "download"}
    /\ method = IF kind = "upload" THEN "POST" ELSE "GET"
    /\ data = <<>> /\ includeRaw = FALSE
    /\ from \in FromValues
    /\ location \in (IF from = "sync" THEN {Undefined, "loc1"} ELSE {Undefined})
    /\ queryParams \in (IF kind = "upload" THEN QuerySet ELSE {<<>>})
    /\ chunk \in (IF kind = "upload" THEN Chunks ELSE {<<>>})
    /\ db \in {[NoFlags EXCEPT !["maxStorageReached"] = m] : m \in BOOLEAN}
    /\ locationPaused = FALSE

(* no endpoint wrapper has been called *)
OpsIdle ==
    /\ op = "none" /\ opType = "file" /\ opRaw = FALSE
    /\ numUsers = 0 /\ numLinks = 0 /\ contents = [files |-> <<>>, folders |-> <<>>]
    /\ opPc = "idle" /\ opResult = [st |-> "pending", err |-> "none", uuid |-> "none"]
    /\ logoutCalls = 0 /\ primaryStatus = "none" /\ settledBy = InvalidJSON
    /\ prop = [pc |-> "idle", shareCheckDone |-> FALSE, linkCheckDone |-> FALSE,
               resolved |-> FALSE, interval |-> FALSE]
    /\ share = [pc |-> "idle", items |-> <<>>, total |-> 0, count |-> 0]
    /\ shareTasks = <<>>
    /\ link = [pc |-> "idle", items |-> <<>>, links |-> <<>>, total |-> 0, count |-> 0,
               pos |-> 1, key |-> 0,
               encrypted |-> [str |-> FALSE, item |-> 0, key |-> 0]]
    /\ linkTasks = <<>>

(* no list is being built *)
ListIdle ==
    listing = [pc |-> "idle", side |-> "none",
               contents |-> [files |-> <<>>, folders |-> <<>>], items |-> <<>>]

(* no concurrent transfer calls *)
ChunksIdle == chunkCalls = <<>>

(* createFolderSemaphore is free, no createFolder call is running *)
FolderIdle ==
    /\ sem = [counter |-> 0, waiting |-> <<>>]
    /\ cf = <<>>
    /\ serverFolders = {}

(* one call of any of the three, the transfers without networking settings *)
Init ==
    /\ online = TRUE
    /\ rates = InitialRates
    /\ LoopInit
    /\ (ApiInit \/ (TransferInit /\ networkingSettings = NullSettings))
    /\ OpsIdle
    /\ FolderIdle
    /\ ListIdle
    /\ ChunksIdle

(* one call of uploadChunk or downloadChunk, with or without settings *)
InitTransfer ==
    /\ online = TRUE
    /\ rates = InitialRates
    /\ LoopInit
    /\ TransferInit /\ networkingSettings \in SettingsSet
    /\ OpsIdle
    /\ FolderIdle
    /\ ListIdle
    /\ ChunksIdle

ReqIds == 1..Len(reqs)

ApiNext ==
    \/ ApiStart
    \/ ApiTimer
    \/ \E i \in ReqIds :
          \/ ApiResponseNot200(i)
          \/ ApiResponse200(i)
          \/ \E b \in WireBodies : ApiResponseEnd(i, b)
          \/ ApiRequestError(i)
          \/ ApiRequestTimeout(i)

UploadNext ==
    \/ UploadStart
    \/ \E ok \in BOOLEAN : UploadGatePoll(ok)
    \/ UploadHashed
    \/ UploadTimer
    \/ \E i \in ReqIds :
          \/ UploadResponseNot200(i)
          \/ UploadBodyWritten(i)
          \/ UploadResponse200(i)
          \/ \E b \in WireBodies : UploadResponseEnd(i, b)
          \/ UploadRequestError(i)
          \/ UploadRequestTimeout(i)

DownloadNext ==
    \/ DownloadStart
    \/ \E ok \in BOOLEAN : DownloadGatePoll(ok)
    \/ DownloadTimer
    \/ \E i \in ReqIds :
          \/ DownloadResponseNot200(i)
          \/ DownloadResponse200(i)
          \/ DownloadEnd(i)
          \/ DownloadResponseError(i)
          \/ DownloadRequestError(i)
          \/ DownloadRequestTimeout(i)

EnvNext ==
    \/ SetOnline
    \/ \E key \in PauseKeys, v \in BOOLEAN : WriteFlag(key, v)
    \/ WriteLocationPaused

(* The retry loops of the three calls; the bytes of a download's response  *)
(* are left out here (an attempt that ends has received none).             *)
Next == ApiNext \/ UploadNext \/ DownloadNext \/ EnvNext

Spec == Init /\ [][Next]_vars

(* The two transfers on a machine that stays online, with networking       *)
(* settings and with the response of a download arriving in buffers        *)
DownloadStream == \E i \in ReqIds : DownloadData(i)

PauseNext ==
    \/ \E key \in PauseKeys, v \in BOOLEAN : WriteFlag(key, v)
    \/ WriteLocationPaused

NextTransfer == UploadNext \/ DownloadNext \/ DownloadStream \/ PauseNext

SpecTransfer == InitTransfer /\ [][NextTransfer]_vars

----------------------------------------------------------------------------
(* apiRequest and the endpoint wrappers.  Here doAPIRequest is its         *)
(* outcome: it resolves with a parsed body whose code is not               *)
(* internal_error (wrapped as {data, raw} under includeRaw) or rejects     *)
(* with the max-retries or the decode error.                               *)

OpBodies == {b \in Envelopes : b.code # "internal_error"}

Settles ==
    {Resolved(b, r) : b \in OpBodies, r \in BOOLEAN}
    \cup {Rejected(e, InvalidJSON) : e \in {"MaxRetries", "DecodeError"}}

(* what apiRequest reads as response.code and response.message: the        *)
(* fields of the object doAPIRequest resolved with, which under includeRaw *)
(* is the wrapper {data, raw}                                              *)
responseCode(r) == IF r.raw THEN Undefined ELSE r.body.code
responseMessage(r) == IF r.raw THEN NoMessage ELSE r.body.message

(* the test of lines 226-231 written on a parsed body *)
invalidatesSession(code, message) ==
    /\ code # Undefined
    /\ message.str
    /\ \/ indexOf(toLowerCase(message.words), <<"api", "key", "not", "found">>) # -1
       \/ indexOf(toLowerCase(message.words), <<"invalid", "api", "key">>) # -1
       \/ code = "api_key_not_found"

(* apiRequest's test on the response it got *)
sessionInvalidated(r) == invalidatesSession(responseCode(r), responseMessage(r))

Ops ==
    { "folderPresent", "dirTree", "trashItem", "moveFile", "moveFolder",
      "renameFile", "renameFolder", "createFolder" }

Mutating == {"moveFile", "moveFolder", "renameFile", "renameFolder", "createFolder"}

(* the operations that read masterKeys and encrypt before their request *)
Prepares == {"renameFile", "renameFolder", "createFolder"}

itemType(o, t) ==
    CASE o \in {"moveFile", "renameFile"} -> "file"
      [] o \in {"moveFolder", "renameFolder", "createFolder"} -> "folder"
      [] OTHER -> t

(* the codes a wrapper takes for "already gone" *)
swallowedCodesFileOnly(o) ==
    CASE o \in {"trashItem", "moveFile", "renameFile"} -> {"file_not_found"}
      [] o \in {"moveFolder", "renameFolder"} -> {"folder_not_found"}
      [] OTHER -> {}
swallowedCodesEither(o) ==
    IF o \in {"trashItem", "moveFile", "moveFolder", "renameFile", "renameFolder"}
    THEN {"folder_not_found", "file_not_found"}
    ELSE {}
swallowedCodes(o) ==
    CASE o = "trashItem" -> {"folder_not_found", "file_not_found"}
      [] o \in {"moveFile", "renameFile"} -> {"file_not_found"}
      [] o \in {"moveFolder", "renameFolder"} -> {"folder_not_found"}
      [] OTHER -> {}

(* which of the two propagation entry points a wrapper calls *)
propagator(o) ==
    IF o \in {"renameFile", "renameFolder"} THEN "rename" ELSE "parent"

NoResult == [st |-> "pending", err |-> "none", uuid |-> "none"]
Returned(u) == [st |-> "returned", err |-> "none", uuid |-> u]
Thrown(e) == [st |-> "thrown", err |-> e, uuid |-> "none"]

(* Semaphore(1) of ../helpers *)
SemMax == 1
SemFree == [counter |-> 0, waiting |-> <<>>]
(* release(): counter--, then the first waiter, if any, takes the permit *)
semRelease(sm) ==
    IF Len(sm.waiting) > 0 /\ sm.counter - 1 < SemMax
    THEN [counter |-> sm.counter, waiting |-> Tail(sm.waiting)]
    ELSE [counter |-> sm.counter - 1, waiting |-> sm.waiting]

(* what the wrapper does with the response apiRequest returned:            *)
(* "throw" the server message, "return" at once, "exists" (createFolder    *)
(* returns data.existsUUID), or "propagate"                                *)
wrapperStepExistsIgnored(o, raw, b) ==
    IF o = "dirTree" \/ o = "folderPresent"
    THEN IF ~b.status THEN "throw" ELSE "return"
    ELSE IF ~b.status /\ o # "createFolder"
    THEN IF b.code \in swallowedCodes(o) THEN "return" ELSE "throw"
    ELSE IF o \in Mutating THEN "propagate" ELSE "return"
(* variant in which an answer that says the item is gone goes on to the    *)
(* propagation                                                             *)
wrapperStepGonePropagates(o, raw, b) ==
    IF o = "dirTree" \/ o = "folderPresent"
    THEN IF ~b.status THEN "throw" ELSE "return"
    ELSE IF ~b.status
    THEN IF o = "createFolder"
         THEN IF b.existsUUID # Undefined THEN "exists" ELSE "throw"
         ELSE IF b.code \in swallowedCodes(o) THEN "propagate" ELSE "throw"
    ELSE IF o \in Mutating THEN "propagate" ELSE "return"
(* variant in which createFolder throws on every status false *)
wrapperStepExistsThrows(o, raw, b) ==
    IF o = "dirTree" \/ o = "folderPresent"
    THEN IF ~b.status THEN "throw" ELSE "return"
    ELSE IF ~b.status
    THEN IF b.code \in swallowedCodes(o) THEN "return" ELSE "throw"
    ELSE IF o \in Mutating THEN "propagate" ELSE "return"
wrapperStep(o, raw, b) ==
    IF o = "dirTree" \/ o = "folderPresent"
    THEN IF ~b.status THEN "throw" ELSE "return"
    ELSE IF ~b.status
    THEN IF o = "createFolder"
         THEN IF b.existsUUID # Undefined THEN "exists" ELSE "throw"
         ELSE IF b.code \in swallowedCodes(o) THEN "return" ELSE "throw"
    ELSE IF o \in Mutating THEN "propagate" ELSE "return"

PropIdle ==
    [pc |-> "idle", shareCheckDone |-> FALSE, linkCheckDone |-> FALSE,
     resolved |-> FALSE, interval |-> FALSE]
NoEnc == [str |-> FALSE, item |-> 0, key |-> 0]
ShareIdle == [pc |-> "idle", items |-> <<>>, total |-> 0, count |-> 0]
LinkIdle ==
    [pc |-> "idle", items |-> <<>>, links |-> <<>>, total |-> 0, count |-> 0,
     pos |-> 1, key |-> 0, encrypted |-> NoEnc]

(* the operation ends: createFolder gives the permit back *)
opEnds(res) ==
    /\ opPc' = "done"
    /\ opResult' = res
    /\ sem' = IF op = "createFolder" THEN semRelease(sem) ELSE sem

(* The operation is called.  createFolder takes the permit; the wrappers   *)
(* that encrypt first read masterKeys and encrypt (prepOK: both succeed),  *)
(* then the request to the primary endpoint is issued.                     *)
OpStart(prepOK) ==
    /\ opPc = "start"
    /\ IF op \in Prepares /\ ~prepOK
       THEN /\ opPc' = "done"
            /\ opResult' = Thrown("CryptoError")
            /\ sem' = sem
       ELSE /\ opPc' = "primary"
            /\ sem' = IF op = "createFolder"
                      THEN [sem EXCEPT !.counter = sem.counter + 1]
                      ELSE sem
            /\ UNCHANGED opResult
    /\ UNCHANGED <<opArgs, logoutCalls, primaryStatus, settledBy, propVars>>
    /\ UNCHANGED nonOps

(* apiRequest of the primary endpoint settles, and the wrapper goes on in  *)
(* the same turn                                                           *)
OpPrimarySettles(r) ==
    /\ opPc = "primary"
    /\ r.state = "resolved" => r.raw = opRaw
    /\ IF r.state = "rejected"
       THEN /\ opEnds(Thrown(r.error))
            /\ primaryStatus' = "rejected"
            /\ UNCHANGED <<logoutCalls, settledBy, prop>>
       ELSE IF sessionInvalidated(r)
       THEN /\ logoutCalls' = logoutCalls + 1
            /\ opEnds(Thrown("SessionInvalidated"))
            /\ primaryStatus' = "invalidated"
            /\ settledBy' = r.body
            /\ UNCHANGED prop
       ELSE /\ primaryStatus' = IF r.body.status THEN "true" ELSE "false"
            /\ UNCHANGED logoutCalls
            /\ LET step == wrapperStep(op, r.raw, r.body)
               IN  CASE step = "throw" ->
                          /\ opEnds(Thrown("ServerMessage"))
                          /\ settledBy' = r.body
                          /\ UNCHANGED prop
                     [] step = "return" ->
                          /\ opEnds(Returned("none"))
                          /\ settledBy' = r.body
                          /\ UNCHANGED prop
                     [] step = "exists" ->
                          /\ opEnds(Returned(r.body.existsUUID))
                          /\ settledBy' = r.body
                          /\ UNCHANGED prop
                     [] OTHER ->
                          /\ opPc' = "prop"
                          /\ prop' = [PropIdle EXCEPT !.pc = "apiKey"]
                          /\ UNCHANGED <<opResult, sem, settledBy>>
    /\ UNCHANGED <<opArgs, share, shareTasks, link, linkTasks>>
    /\ UNCHANGED nonOps

----------------------------------------------------------------------------
(* Metadata propagation: checkIfItemParentIsShared (propagator "parent")   *)
(* and checkIfItemIsSharedForRename (propagator "rename").                 *)
(*                                                                         *)
(* Recipient x has public key x, link x has link key x.  A key variable    *)
(* holds 0 for undefined, -1 for the empty string, x for link x's key.     *)
(* An encrypted blob is the item it was made from and the key used.        *)

MaxUsers == 2
MaxLinks == 2

ItemUuid == "u"
ParentUuid == "p"

Tags == {"<b>", "</b>"}
(* striptags: the string without its tags *)
striptags(n) == SelectSeq(n, LAMBDA w : w \notin Tags)

(* the folder itself, the first entry of both lists *)
SelfItem == [uuid |-> ItemUuid, parent |-> ParentUuid, name |-> <<"new">>, type |-> "folder"]

(* decryptFileMetadata is awaited outside any try: a throw leaves the      *)
(* callback for the catch of line 859 or 1099                              *)
filesThrow(files) == \E i \in 1..Len(files) : files[i].decrypts = "throws"

(* the files loop *)
RECURSIVE filesToItems(_)
filesToItems(files) ==
    IF files = <<>> THEN <<>>
    ELSE LET f == files[1]
             rest == filesToItems(Tail(files))
         IN  IF f.decrypts = "ok" /\ Len(striptags(f.name)) > 0
             THEN <<[uuid |-> f.uuid, parent |-> f.parent,
                     name |-> striptags(f.name), type |-> "file"]>> \o rest
             ELSE rest

(* The folders loop from index i (0-based in the code, 1-based here), with *)
(* the function-scoped variable "decrypted" as the previous iterations     *)
(* left it: dec.str says whether it holds a string.                        *)
RECURSIVE foldersToItems(_, _, _)
foldersToItems(folders, i, dec) ==
    IF i > Len(folders) THEN <<>>
    ELSE LET d == folders[i]
             now == IF d.decrypts = "throws" THEN dec
                    ELSE [str |-> TRUE, name |-> striptags(d.name)]
             rest == foldersToItems(folders, i + 1, now)
         IN  IF /\ now.str
                /\ Len(now.name) > 0
                /\ d.uuid # ItemUuid
                /\ d.parent # "base"
             THEN <<[uuid |-> d.uuid,
                     parent |-> IF i = 1 THEN "none" ELSE d.parent,
                     name |-> now.name, type |-> "folder"]>> \o rest
             ELSE rest

(* itemsToShare / itemsToLink of a folder *)
buildItems(c) ==
    <<SelfItem>> \o filesToItems(c.files)
    \o foldersToItems(c.folders, 1, [str |-> FALSE, name |-> <<>>])

File1(d) == [uuid |-> "f1", parent |-> ItemUuid, name |-> <<"<b>", "a.txt">>, decrypts |-> d]
Dir1(d) == [uuid |-> "d1", parent |-> ItemUuid, name |-> <<"sub">>, decrypts |-> d]

(* the answers of /v3/dir/download the fan-outs are run against *)
ContentsSet ==
    { [files |-> <<>>, folders |-> <<>>],
      [files |-> <<File1("ok")>>, folders |-> <<>>],
      [files |-> <<>>, folders |-> <<Dir1("ok")>>],
      [files |-> <<File1("throws")>>, folders |-> <<>>] }

(* the item a rename or a file move propagates *)
SingleItem(t) == <<[uuid |-> ItemUuid, parent |-> ParentUuid, name |-> <<"new">>, type |-> t]>>

Pairs(n, m) == (1..n) \X (1..m)

(* done(): both flags set: stop the interval and resolve once *)
done(p) ==
    IF p.shareCheckDone /\ p.linkCheckDone
    THEN [p EXCEPT !.interval = FALSE, !.resolved = TRUE]
    ELSE p

(* The propagation's flags become p; when that resolves the promise the    *)
(* awaiting wrapper returns in the same turn.                              *)
propBecomes(p) ==
    /\ prop' = p
    /\ IF p.resolved /\ ~prop.resolved
       THEN opEnds(Returned(IF op = "createFolder" THEN ItemUuid ELSE "none"))
       ELSE UNCHANGED <<opPc, opResult, sem>>

(* db.get("apiKey") settles *)
PropApiKey(readOK) ==
    /\ prop.pc = "apiKey"
    /\ IF readOK
       THEN /\ prop' = [prop EXCEPT !.pc = "masterKeys"]
            /\ UNCHANGED <<opPc, opResult, sem>>
       ELSE /\ prop' = [prop EXCEPT !.pc = "rejected"]
            /\ opEnds(Thrown("StoreError"))
    /\ UNCHANGED <<opArgs, logoutCalls, primaryStatus, settledBy, share, shareTasks, link, linkTasks>>
    /\ UNCHANGED nonOps

(* db.get("masterKeys") settles: the interval is set and both discovery    *)
(* queries are sent                                                        *)
PropMasterKeys(readOK) ==
    /\ prop.pc = "masterKeys"
    /\ IF readOK
       THEN /\ prop' = [prop EXCEPT !.pc = "running", !.interval = TRUE]
            /\ share' = [ShareIdle EXCEPT !.pc = "query"]
            /\ link' = [LinkIdle EXCEPT !.pc = "query"]
            /\ UNCHANGED <<opPc, opResult, sem>>
       ELSE /\ prop' = [prop EXCEPT !.pc = "rejected"]
            /\ opEnds(Thrown("StoreError"))
            /\ UNCHANGED <<share, link>>
    /\ UNCHANGED <<opArgs, logoutCalls, primaryStatus, settledBy, shareTasks, linkTasks>>
    /\ UNCHANGED nonOps

(* setInterval(done, 100) fires *)
PropInterval ==
    /\ prop.interval
    /\ propBecomes(done(prop))
    /\ UNCHANGED <<opArgs, logoutCalls, primaryStatus, settledBy, share, shareTasks, link, linkTasks>>
    /\ UNCHANGED nonOps

----------------------------------------------------------------------------
(* Share fan-out *)

(* doneSharing / doneSharingItem after n more completions *)
shareCountsPerUser(sh, p, n) ==
    IF sh.count + n >= sh.total /\ n > 0
    THEN done([p EXCEPT !.shareCheckDone = TRUE])
    ELSE p
shareCounts(sh, p, n) ==
    IF sh.count + n >= Len(sh.items) * sh.total /\ n > 0
    THEN done([p EXCEPT !.shareCheckDone = TRUE])
    ELSE p

(* the share side ends without a fan-out: sharing is false ("notShared"),  *)
(* or a catch handler of lines 859-874, 1218-1224 ran ("failed")           *)
shareEnds(why) ==
    /\ share' = [share EXCEPT !.pc = why]
    /\ propBecomes(done([prop EXCEPT !.shareCheckDone = TRUE]))
    /\ UNCHANGED shareTasks

(* every (item, recipient) pair starts its encryptMetadataPublicKey *)
shareDispatch(items, n) ==
    /\ share' = [pc |-> "fanout", items |-> items, total |-> n, count |-> 0]
    /\ shareTasks' = [t \in Pairs(Len(items), n) |-> [st |-> "enc", key |-> 0]]
    /\ UNCHANGED <<prop, opPc, opResult, sem>>

(* /v3/dir/shared or /v3/item/shared answers: r is "fail" (the query       *)
(* throws), "no" (sharing false) or "yes" (sharing true, numUsers users)   *)
ShareQueryDone(r) ==
    /\ share.pc = "query"
    /\ r = "no" => numUsers = 0
    /\ CASE r = "fail" -> shareEnds("failed")
         [] r = "no" -> shareEnds("notShared")
         [] r = "yes" /\ propagator(op) = "parent" /\ itemType(op, opType) = "folder" ->
              /\ share' = [share EXCEPT !.pc = "contents", !.total = numUsers]
              /\ UNCHANGED <<shareTasks, prop, opPc, opResult, sem>>
         [] OTHER -> shareDispatch(SingleItem(itemType(op, opType)), numUsers)
    /\ UNCHANGED <<opArgs, logoutCalls, primaryStatus, settledBy, link, linkTasks>>
    /\ UNCHANGED nonOps

(* /v3/dir/download settles for the share side: it fails, or answers c *)
ShareContentsDone(fetchOK, c) ==
    /\ share.pc = "contents"
    /\ c = contents
    /\ IF ~fetchOK \/ filesThrow(c.files)
       THEN shareEnds("failed")
       ELSE shareDispatch(buildItems(c), share.total)
    /\ UNCHANGED <<opArgs, logoutCalls, primaryStatus, settledBy, link, linkTasks>>
    /\ UNCHANGED nonOps

(* data.users[x].publicKey: the key the metadata for recipient x is        *)
(* encrypted under                                                         *)
publicKey(x) == x

(* encryptMetadataPublicKey of one pair settles: the call is sent, or the  *)
(* pair is counted as done without a call                                  *)
ShareEncrypted(t, encOK) ==
    /\ share.pc = "fanout" /\ t \in DOMAIN shareTasks /\ shareTasks[t].st = "enc"
    /\ IF encOK
       THEN /\ shareTasks' = [shareTasks EXCEPT ![t] = [st |-> "call", key |-> publicKey(t[2])]]
            /\ UNCHANGED <<share, prop, opPc, opResult, sem>>
       ELSE /\ shareTasks' = [shareTasks EXCEPT ![t].st = "skipped"]
            /\ share' = [share EXCEPT !.count = share.count + 1]
            /\ propBecomes(shareCounts(share, prop, 1))
    /\ UNCHANGED <<opArgs, logoutCalls, primaryStatus, settledBy, link, linkTasks>>
    /\ UNCHANGED nonOps

(* shareItem / renameSharedItem of one pair settles; its then and its      *)
(* catch both count the pair                                               *)
ShareCallSettled(t) ==
    /\ share.pc = "fanout" /\ t \in DOMAIN shareTasks /\ shareTasks[t].st = "call"
    /\ shareTasks' = [shareTasks EXCEPT ![t].st = "done"]
    /\ share' = [share EXCEPT !.count = share.count + 1]
    /\ propBecomes(shareCounts(share, prop, 1))
    /\ UNCHANGED <<opArgs, logoutCalls, primaryStatus, settledBy, link, linkTasks>>
    /\ UNCHANGED nonOps

----------------------------------------------------------------------------
(* Link fan-out *)

LinkOutcomes == {"ok", "empty", "throws"}

(* the answers of the link discovery query: one decryptFolderLinkKey       *)
(* outcome per link                                                        *)
LinkLists(n) == [1..n -> LinkOutcomes]

(* what decryptFolderLinkKey gives for link x *)
decryptFolderLinkKey(outcome, x) == IF outcome = "empty" THEN -1 ELSE x

NoCall == [st |-> "todo", key |-> 0, blob |-> NoEnc]

(* doneLinking / itemLinked after n more completions *)
linkCounts(lk, p, n) ==
    IF lk.count + n >= Len(lk.items) * lk.total /\ n > 0
    THEN done([p EXCEPT !.linkCheckDone = TRUE])
    ELSE p

linkEnds(why) ==
    /\ link' = [link EXCEPT !.pc = why]
    /\ propBecomes(done([prop EXCEPT !.linkCheckDone = TRUE]))
    /\ UNCHANGED linkTasks

linkDispatch(items, how) ==
    /\ link' = [link EXCEPT !.pc = how, !.items = items]
    /\ linkTasks' = [t \in Pairs(Len(items), link.total) |-> NoCall]
    /\ UNCHANGED <<prop, opPc, opResult, sem>>

(* /v3/dir/linked or /v3/link/dir/item/status answers: r is "fail", "no"   *)
(* (linking false) or "yes" (linking true with the numLinks links ls)      *)
LinkQueryDone(r, ls) ==
    /\ link.pc = "query"
    /\ r = "no" => numLinks = 0
    /\ r # "yes" => ls = [x \in 1..numLinks |-> "ok"]
    /\ CASE r = "fail" -> linkEnds("failed")
         [] r = "no" -> linkEnds("notLinked")
         [] propagator(op) = "parent" /\ itemType(op, opType) = "folder" ->
              /\ link' = [link EXCEPT !.pc = "contents", !.links = ls, !.total = numLinks]
              /\ UNCHANGED <<linkTasks, prop, opPc, opResult, sem>>
         [] OTHER ->
              /\ link' = [link EXCEPT
                            !.pc = IF propagator(op) = "rename" THEN "fanout" ELSE "loop",
                            !.items = SingleItem(itemType(op, opType)),
                            !.links = ls, !.total = numLinks]
              /\ linkTasks' = [t \in Pairs(1, numLinks) |-> NoCall]
              /\ UNCHANGED <<prop, opPc, opResult, sem>>
    /\ UNCHANGED <<opArgs, logoutCalls, primaryStatus, settledBy, share, shareTasks>>
    /\ UNCHANGED nonOps

(* /v3/dir/download answers for the link side *)
LinkContentsDone(fetchOK, c) ==
    /\ link.pc = "contents"
    /\ c = contents
    /\ IF ~fetchOK \/ filesThrow(c.files)
       THEN linkEnds("failed")
       ELSE linkDispatch(buildItems(c), "loop")
    /\ UNCHANGED <<opArgs, logoutCalls, primaryStatus, settledBy, share, shareTasks>>
    /\ UNCHANGED nonOps

(* the pair the sequential loops are at: items outside, links inside *)
loopPair(lk) == <<((lk.pos - 1) \div lk.total) + 1, ((lk.pos - 1) % lk.total) + 1>>

(* The variable "key" after the decrypt of one iteration of the file loop, *)
(* which declares it with var inside a try: a throw leaves the value of    *)
(* the previous iteration.  (The folder loop declares a const and has no   *)
(* try: there a throw never gets here.)                                    *)
keyAfter(lk, outcome, x) ==
    IF outcome = "throws" THEN lk.key ELSE decryptFolderLinkKey(outcome, x)

(* The variable "encrypted" after the encrypt of one iteration: declared   *)
(* with var inside a try in both loops.                                    *)
encryptedAfter(lk, i, k, encOK) ==
    IF encOK THEN [str |-> TRUE, item |-> i, key |-> k] ELSE lk.encrypted

(* One iteration of the sequential loop of checkIfItemParentIsShared's     *)
(* link side, up to the point where it has issued addItemToPublicLink or   *)
(* counted the pair.  In the folder loop a throwing decryptFolderLinkKey   *)
(* leaves the loop for the catch of line 1099.                             *)
LinkStep(encOK) ==
    /\ link.pc = "loop"
    /\ link.total > 0
    /\ link.pos <= Len(link.items) * link.total
    /\ LET t == loopPair(link)
           outcome == link.links[t[2]]
           k == keyAfter(link, outcome, t[2])
           e == encryptedAfter(link, t[1], k, encOK)
       IN  IF itemType(op, opType) = "folder" /\ outcome = "throws"
           THEN /\ encOK
                /\ linkEnds("aborted")
           ELSE IF k > 0
           THEN IF e.str
                THEN /\ link' = [link EXCEPT !.pos = link.pos + 1, !.key = k, !.encrypted = e]
                     /\ linkTasks' = [linkTasks EXCEPT ![t] = [st |-> "call", key |-> k, blob |-> e]]
                     /\ UNCHANGED <<prop, opPc, opResult, sem>>
                ELSE /\ link' = [link EXCEPT !.pos = link.pos + 1, !.key = k, !.encrypted = e,
                                             !.count = link.count + 1]
                     /\ linkTasks' = [linkTasks EXCEPT ![t].st = "skipped"]
                     /\ propBecomes(linkCounts(link, prop, 1))
           ELSE /\ encOK
                /\ link' = [link EXCEPT !.pos = link.pos + 1, !.key = k,
                                        !.count = link.count + 1]
                /\ linkTasks' = [linkTasks EXCEPT ![t].st = "skipped"]
                /\ propBecomes(linkCounts(link, prop, 1))
    /\ UNCHANGED <<opArgs, logoutCalls, primaryStatus, settledBy, share, shareTasks>>
    /\ UNCHANGED nonOps

(* checkIfItemIsSharedForRename: the chain decryptFolderLinkKey then       *)
(* encryptMetadata of link t[2] settles; each link has its own closure, so *)
(* the key is that link's.                                                 *)
renameLinkKeyOfFirst(links, x) == decryptFolderLinkKey(links[1], 1)
renameLinkKey(links, x) == decryptFolderLinkKey(links[x], x)

LinkRenameCrypto(t, encOK) ==
    /\ link.pc = "fanout" /\ t \in DOMAIN linkTasks /\ linkTasks[t].st = "todo"
    /\ IF link.links[t[2]] # "throws" /\ encOK
       THEN /\ linkTasks' = [linkTasks EXCEPT ![t] =
                   [st |-> "call", key |-> renameLinkKey(link.links, t[2]),
                    blob |-> [str |-> TRUE, item |-> t[1],
                              key |-> renameLinkKey(link.links, t[2])]]]
            /\ UNCHANGED <<link, prop, opPc, opResult, sem>>
       ELSE /\ linkTasks' = [linkTasks EXCEPT ![t].st = "skipped"]
            /\ link' = [link EXCEPT !.count = link.count + 1]
            /\ propBecomes(linkCounts(link, prop, 1))
    /\ UNCHANGED <<opArgs, logoutCalls, primaryStatus, settledBy, share, shareTasks>>
    /\ UNCHANGED nonOps

(* addItemToPublicLink / renameItemInPublicLink of one pair settles; its   *)
(* then and its catch both count the pair                                  *)
LinkCallSettled(t) ==
    /\ t \in DOMAIN linkTasks /\ linkTasks[t].st = "call"
    /\ linkTasks' = [linkTasks EXCEPT ![t].st = "done"]
    /\ link' = [link EXCEPT !.count = link.count + 1]
    /\ propBecomes(linkCounts(link, prop, 1))
    /\ UNCHANGED <<opArgs, logoutCalls, primaryStatus, settledBy, share, shareTasks>>
    /\ UNCHANGED nonOps

----------------------------------------------------------------------------
(* Specification SpecOps: one call of an endpoint wrapper, from the call   *)
(* to the end of the propagation it triggers.                              *)

(* no transport call is running *)
TransportIdle ==
    /\ kind = "api" /\ method = "POST" /\ data = <<>> /\ includeRaw = FALSE
    /\ from = "sync" /\ location = Undefined /\ queryParams = <<>> /\ chunk = <<>>
    /\ networkingSettings = NullSettings /\ rates = InitialRates
    /\ online = TRUE /\ db = NoFlags /\ locationPaused = FALSE
    /\ pc = "idle" /\ checksum = <<>> /\ currentTries = 0 /\ timers = 0
    /\ reqs = <<>> /\ httpCount = 0 /\ promise = Pending

OpsInit ==
    /\ op \in Ops
    /\ opType \in (IF op = "trashItem" THEN {"file", "folder"} ELSE {itemType(op, "file")})
    /\ opRaw \in (IF op = "dirTree" THEN BOOLEAN ELSE {FALSE})
    /\ numUsers \in (IF op \in Mutating THEN 0..MaxUsers ELSE {0})
    /\ numLinks \in (IF op \in Mutating THEN 0..MaxLinks ELSE {0})
    /\ contents \in (IF op \in {"createFolder", "moveFolder"}
                      THEN ContentsSet ELSE {[files |-> <<>>, folders |-> <<>>]})
    /\ opPc = "start" /\ opResult = NoResult
    /\ logoutCalls = 0 /\ primaryStatus = "none" /\ settledBy = InvalidJSON
    /\ prop = PropIdle
    /\ share = ShareIdle /\ shareTasks = <<>>
    /\ link = LinkIdle /\ linkTasks = <<>>
    /\ TransportIdle
    /\ FolderIdle
    /\ ListIdle
    /\ ChunksIdle

OpsNext ==
    \/ \E prepOK \in BOOLEAN : OpStart(prepOK)
    \/ \E r \in Settles : OpPrimarySettles(r)
    \/ \E readOK \in BOOLEAN : PropApiKey(readOK)
    \/ \E readOK \in BOOLEAN : PropMasterKeys(readOK)
    \/ PropInterval
    \/ \E r \in {"fail", "no", "yes"} : ShareQueryDone(r)
    \/ \E fetchOK \in BOOLEAN, c \in ContentsSet : ShareContentsDone(fetchOK, c)
    \/ \E t \in DOMAIN shareTasks, encOK \in BOOLEAN : ShareEncrypted(t, encOK)
    \/ \E t \in DOMAIN shareTasks : ShareCallSettled(t)
    \/ \E r \in {"fail", "no", "yes"}, ls \in LinkLists(numLinks) : LinkQueryDone(r, ls)
    \/ \E fetchOK \in BOOLEAN, c \in ContentsSet : LinkContentsDone(fetchOK, c)
    \/ \E encOK \in BOOLEAN : LinkStep(encOK)
    \/ \E t \in DOMAIN linkTasks, encOK \in BOOLEAN : LinkRenameCrypto(t, encOK)
    \/ \E t \in DOMAIN linkTasks : LinkCallSettled(t)

SpecOps == OpsInit /\ [][OpsNext]_vars

(* The same under the scheduling the event loop gives: every callback that *)
(* can run does run, every request and every key operation settles.        *)
SpecOpsFair == SpecOps /\ WF_vars(OpsNext)

----------------------------------------------------------------------------
(* Specification SpecFolder: NumCalls concurrent calls of createFolder     *)
(* with the same name and parent, each with its own uuid, against a server *)
(* that refuses a duplicate (parent, nameHashed) with status false and     *)
(* data.existsUUID.  The propagation is its outcome here.                  *)

NumCalls == 3

Calls == 1..NumCalls

Uuids == <<"u1", "u2", "u3", "u4", "u5">>
uuidOf(c) == Uuids[c]

(* acquire(): the permit at once when one is free, else the caller queues *)
semAcquire(sm, c) ==
    IF sm.counter < SemMax
    THEN [sm EXCEPT !.counter = sm.counter + 1]
    ELSE [sm EXCEPT !.waiting = Append(sm.waiting, c)]

(* the waiter a release wakes, 0 when none *)
semWakes(sm) ==
    IF Len(sm.waiting) > 0 /\ sm.counter - 1 < SemMax THEN Head(sm.waiting) ELSE 0

(* between acquire and release *)
Holding == {"prepare", "create", "prop"}

(* call c releases the semaphore and ends with res; a woken waiter goes on *)
folderRelease(c, res) ==
    /\ sem' = semRelease(sem)
    /\ cf' = [d \in Calls |->
                IF d = c THEN [pc |-> "done", result |-> res]
                ELSE IF d = semWakes(sem) THEN [cf[d] EXCEPT !.pc = "prepare"]
                ELSE cf[d]]

(* createFolder is called: await createFolderSemaphore.acquire() *)
FolderCallUngated(c) ==
    /\ cf[c].pc = "idle"
    /\ sem' = [sem EXCEPT !.counter = sem.counter + 1]
    /\ cf' = [cf EXCEPT ![c].pc = "prepare"]
    /\ UNCHANGED serverFolders
    /\ UNCHANGED nonFolder
FolderCall(c) ==
    /\ cf[c].pc = "idle"
    /\ sem' = semAcquire(sem, c)
    /\ cf' = [cf EXCEPT ![c].pc = IF sem.counter < SemMax THEN "prepare" ELSE "waiting"]
    /\ UNCHANGED serverFolders
    /\ UNCHANGED nonFolder

(* the name hash, the read of masterKeys and encryptMetadata settle: the   *)
(* create request is issued, or the catch releases and rethrows            *)
FolderPrepared(c, prepOK) ==
    /\ cf[c].pc = "prepare"
    /\ IF prepOK
       THEN /\ cf' = [cf EXCEPT ![c].pc = "create"]
            /\ UNCHANGED sem
       ELSE folderRelease(c, Thrown("CryptoError"))
    /\ UNCHANGED serverFolders
    /\ UNCHANGED nonFolder

(* the server's answer to /v3/dir/create for uuid u *)
serverCreate(folders, u) ==
    IF folders = {}
    THEN [json |-> TRUE, status |-> TRUE, code |-> "other_code",
          message |-> Msg(<<"some", "error">>), existsUUID |-> Undefined]
    ELSE [json |-> TRUE, status |-> FALSE, code |-> "other_code",
          message |-> Msg(<<"some", "error">>),
          existsUUID |-> CHOOSE x \in folders : TRUE]

(* the server refuses for another reason *)
serverRefuses ==
    [json |-> TRUE, status |-> FALSE, code |-> "other_code",
     message |-> Msg(<<"some", "error">>), existsUUID |-> Undefined]

(* apiRequest of /v3/dir/create settles.  how = "lost": it rejects and the *)
(* server never saw the request; "answerLost": the server handled it and   *)
(* apiRequest rejects all the same; "refused": the server answers status   *)
(* false without existsUUID; "invalidated": the server answers that the    *)
(* API key is not valid and apiRequest throws the session error;           *)
(* "answered": the server handles it and the answer arrives.               *)
FolderCreateSettles(c, how) ==
    /\ cf[c].pc = "create"
    /\ LET b == IF how = "refused" THEN serverRefuses
                ELSE serverCreate(serverFolders, uuidOf(c))
           step == wrapperStep("createFolder", FALSE, b)
       IN  /\ serverFolders' = IF how \in {"answered", "answerLost"} /\ serverFolders = {}
                               THEN {uuidOf(c)} ELSE serverFolders
           /\ CASE how \in {"lost", "answerLost"} -> folderRelease(c, Thrown("MaxRetries"))
                [] how = "invalidated" -> folderRelease(c, Thrown("SessionInvalidated"))
                [] step = "throw" -> folderRelease(c, Thrown("ServerMessage"))
                [] step = "exists" -> folderRelease(c, Returned(b.existsUUID))
                [] OTHER -> /\ cf' = [cf EXCEPT ![c].pc = "prop"]
                            /\ UNCHANGED sem
    /\ UNCHANGED nonFolder

(* variant in which a rejected propagation leaves the permit taken *)
FolderPropagatedThrowKeepsPermit(c, propOK) ==
    /\ cf[c].pc = "prop"
    /\ IF propOK
       THEN folderRelease(c, Returned(uuidOf(c)))
       ELSE /\ cf' = [cf EXCEPT ![c] = [pc |-> "done", result |-> Thrown("StoreError")]]
            /\ UNCHANGED sem
    /\ UNCHANGED serverFolders
    /\ UNCHANGED nonFolder
(* checkIfItemParentIsShared settles: release and return uuid, or the      *)
(* catch releases and rethrows                                             *)
FolderPropagated(c, propOK) ==
    /\ cf[c].pc = "prop"
    /\ folderRelease(c, IF propOK THEN Returned(uuidOf(c)) ELSE Thrown("StoreError"))
    /\ UNCHANGED serverFolders
    /\ UNCHANGED nonFolder

FolderInit ==
    /\ sem = SemFree
    /\ cf = [c \in Calls |-> [pc |-> "idle", result |-> NoResult]]
    /\ serverFolders = {}
    /\ TransportIdle
    /\ OpsIdle
    /\ ListIdle
    /\ ChunksIdle

FolderNext ==
    \E c \in Calls :
        \/ FolderCall(c)
        \/ \E prepOK \in BOOLEAN : FolderPrepared(c, prepOK)
        \/ \E how \in {"lost", "answerLost", "refused", "invalidated", "answered"} :
              FolderCreateSettles(c, how)
        \/ \E propOK \in BOOLEAN : FolderPropagated(c, propOK)

SpecFolder == FolderInit /\ [][FolderNext]_vars

----------------------------------------------------------------------------
(* Specification SpecItems: the code that builds itemsToShare (lines       *)
(* 737-793) and itemsToLink (962-1018) of a folder, run on the contents    *)
(* /v3/dir/download can answer with.                                       *)

MaxFiles == 2
MaxFolders == 2

(* the k-th file entry: decryptFileMetadata gives an object with this      *)
(* name ("ok"), gives no object ("none") or throws                         *)
FileEntries(k) ==
    { [uuid |-> <<"f1", "f2", "f3">>[k], parent |-> ItemUuid, name |-> n, decrypts |-> d] :
        n \in {<< <<"<b>", "a.txt">>, <<"b.txt">>, <<"c.txt">> >>[k], <<"<b>">>},
        d \in {"ok", "none", "throws"} }

(* the k-th folder entry: a subfolder or the folder itself, under the      *)
(* folder or under "base"; decryptFolderName gives its name (which may be  *)
(* the empty string) or throws                                             *)
FolderEntries(k) ==
    { [uuid |-> u, parent |-> q, name |-> n, decrypts |-> d] :
        u \in {<<"d1", "d2", "d3">>[k], ItemUuid}, q \in {ItemUuid, "base"},
        n \in {<< <<"sub">>, <<"<b>", "deep">>, <<"third">> >>[k], <<>>},
        d \in {"ok", "throws"} }

(* the lists of up to MaxFiles files and of up to MaxFolders folders *)
FileLists ==
    UNION { {l \in [1..n -> UNION {FileEntries(k) : k \in 1..n}] :
                \A k \in 1..n : l[k] \in FileEntries(k)} : n \in 0..MaxFiles }
FolderLists ==
    UNION { {l \in [1..n -> UNION {FolderEntries(k) : k \in 1..n}] :
                \A k \in 1..n : l[k] \in FolderEntries(k)} : n \in 0..MaxFolders }

ListContents ==
    { [files |-> fs, folders |-> ds] : fs \in FileLists, ds \in FolderLists }

(* the .then callback of getFolderContents up to the fan-out, for the      *)
(* share side or the link side: the list is built, or a                    *)
(* decryptFileMetadata throws and the callback is left for its catch       *)
BuildList(side) ==
    /\ listing.pc = "start"
    /\ listing' = IF filesThrow(listing.contents.files)
                  THEN [listing EXCEPT !.pc = "thrown", !.side = side]
                  ELSE [listing EXCEPT !.pc = "built", !.side = side,
                                       !.items = buildItems(listing.contents)]
    /\ UNCHANGED nonListing

ItemsInit ==
    /\ listing \in { [pc |-> "start", side |-> "none", contents |-> c, items |-> <<>>] :
                       c \in ListContents }
    /\ TransportIdle
    /\ OpsIdle
    /\ FolderIdle
    /\ ChunksIdle

ItemsNext == \E side \in {"share", "link"} : BuildList(side)

SpecItems == ItemsInit /\ [][ItemsNext]_vars

----------------------------------------------------------------------------
(* Specification SpecChunks: NumChunkCalls concurrent calls of uploadChunk *)
(* and downloadChunk.  throttleGroupUpload and throttleGroupDownload are   *)
(* module-wide (lines 35-40): every call sets the rate of its direction's  *)
(* governor once, after its pause gate (and, for an upload, after the hash *)
(* of its query parameters), right before its first attempt.  The retry    *)
(* loop of a call is one position here, "inflight": it sets no rate.       *)

NumChunkCalls == 2

ChunkIds == 1..NumChunkCalls

ChunkIdle == [dir |-> "none", from |-> "none", pc |-> "idle"]

(* the limit of the call's direction in the settings *)
kbpsOf(settings, dir) ==
    IF dir = "upload" THEN settings.uploadKbps ELSE settings.downloadKbps

(* uploadChunk or downloadChunk is called from f: the reads of line 1325   *)
(* or 1584 settle and the pause gate is entered                            *)
ChunkCalled(c, dir, f) ==
    /\ chunkCalls[c].pc = "idle"
    /\ chunkCalls' = [chunkCalls EXCEPT ![c] = [dir |-> dir, from |-> f, pc |-> "gate"]]
    /\ UNCHANGED rates
    /\ UNCHANGED nonChunks

(* the gate lets an upload through: bufferToHash of the query parameters   *)
(* is awaited                                                              *)
ChunkUploadGatePassed(c) ==
    /\ chunkCalls[c].pc = "gate" /\ chunkCalls[c].dir = "upload"
    /\ chunkCalls' = [chunkCalls EXCEPT ![c].pc = "hashing"]
    /\ UNCHANGED rates
    /\ UNCHANGED nonChunks

(* the call sets its governor's rate and runs doRequest: uploadChunk when  *)
(* the hash is known, downloadChunk when the gate lets it through          *)
ChunkRateSet(c) ==
    /\ \/ chunkCalls[c].pc = "hashing" /\ chunkCalls[c].dir = "upload"
       \/ chunkCalls[c].pc = "gate" /\ chunkCalls[c].dir = "download"
    /\ rates' = setRate(chunkCalls[c].dir,
                        bps(networkingSettings, chunkCalls[c].from,
                            kbpsOf(networkingSettings, chunkCalls[c].dir)))
    /\ chunkCalls' = [chunkCalls EXCEPT ![c].pc = "inflight"]
    /\ UNCHANGED nonChunks

(* the call's promise settles: its last attempt has ended *)
ChunkSettled(c) ==
    /\ chunkCalls[c].pc = "inflight"
    /\ chunkCalls' = [chunkCalls EXCEPT ![c].pc = "done"]
    /\ UNCHANGED rates
    /\ UNCHANGED nonChunks

ChunksInit ==
    /\ chunkCalls = [c \in ChunkIds |-> ChunkIdle]
    /\ kind = "api" /\ method = "POST" /\ data = <<>> /\ includeRaw = FALSE
    /\ from = "sync" /\ location = Undefined /\ queryParams = <<>> /\ chunk = <<>>
    /\ networkingSettings \in SettingsSet /\ rates = InitialRates
    /\ online = TRUE /\ db = NoFlags /\ locationPaused = FALSE
    /\ pc = "idle" /\ checksum = <<>> /\ currentTries = 0 /\ timers = 0
    /\ reqs = <<>> /\ httpCount = 0 /\ promise = Pending
    /\ OpsIdle
    /\ FolderIdle
    /\ ListIdle

ChunksNext ==
    \E c \in ChunkIds :
        \/ \E dir \in {"upload", "download"}, f \in FromValues : ChunkCalled(c, dir, f)
        \/ ChunkUploadGatePassed(c)
        \/ ChunkRateSet(c)
        \/ ChunkSettled(c)

SpecChunks == ChunksInit /\ [][ChunksNext]_vars

----------------------------------------------------------------------------
(* Properties of the transport: specification Spec *)

(* C1: a call of doAPIRequest, uploadChunk or downloadChunk issues at most  *)
(* maxRetryAPIRequest, maxRetryUpload, maxRetryDownload HTTP requests,      *)
(* whatever the responses, errors, timeouts and online/offline changes.     *)
C1_RetryBound == httpCount <= maxRetry(kind)

(* the limit is reached and the call has failed with the max-retries error *)
C1_Witness ==
    /\ kind = "api"
    /\ httpCount = maxRetryAPIRequest
    /\ promise.state = "rejected" /\ promise.error = "MaxRetries"

(* C4: no upload or download request is emitted at a moment when the pause  *)
(* flag that applies to the transfer is set.                                *)
C4_NoRequestWhilePaused == \A i \in ReqIds : ~reqs[i].paused

(* C5: the pause gate is consulted before every attempt, retries included:  *)
(* a retry is not issued while the transfer's pause flag is set.            *)
C5_RetryWaitsForGate == \A i \in ReqIds : reqs[i].try > 1 => ~reqs[i].paused

noAttemptLeft(rs, tm) ==
    /\ tm = 0
    /\ \A j \in 1..Len(rs) : rs[j].st \notin {"open", "streaming"}

(* a word of the message is "storage" in some case *)
saysStorage(b) ==
    \E k \in 1..Len(b.message.words) : Lower(b.message.words[k]) = "storage"

(* C15: a step in which an upload attempt ends with HTTP 200 and a parsed  *)
(* body with status false and a message: if the message mentions storage   *)
(* the store has paused and maxStorageReached set after it, otherwise the  *)
(* store is unchanged; a call still pending is rejected with the server    *)
(* message, and no attempt is out or scheduled afterwards.                 *)
C15_StorageRefusal ==
    [][ \A i \in ReqIds, b \in WireBodies :
          (UploadResponseEnd(i, b) /\ b.json /\ ~b.status /\ b.message.str) =>
              /\ IF saysStorage(b)
                 THEN db'["paused"] /\ db'["maxStorageReached"]
                 ELSE db' = db
              /\ promise.state = "pending" => promise' = Rejected("ServerMessage", b)
              /\ promise'.state = "rejected"
              /\ noAttemptLeft(reqs', timers')
              /\ httpCount' = httpCount ]_vars

C15_Witness ==
    /\ kind = "upload"
    /\ promise.state = "rejected" /\ promise.error = "ServerMessage"
    /\ saysStorage(promise.body)
    /\ db["paused"] /\ db["maxStorageReached"]
    /\ noAttemptLeft(reqs, timers)

(* C16, as stated: a step in which an attempt of a still pending API       *)
(* request ends with HTTP 200 and a parsed body whose code is not           *)
(* internal_error resolves the request with that body; that attempt is the *)
(* last one issued (exactly k attempts for the k-th), and no other attempt *)
(* is out or scheduled, every attempt having waited for the one before.    *)
C16_ResolvesAtKthAttempt ==
    [][ \A i \in ReqIds, b \in WireBodies :
          (ApiResponseEnd(i, b) /\ b.json /\ b.code # "internal_error"
              /\ promise.state = "pending") =>
              /\ promise' = Resolved(b, includeRaw)
              /\ httpCount = reqs[i].try
              /\ noAttemptLeft(reqs', timers') ]_vars

(* C17: in a step taken while the network is offline doAPIRequest issues   *)
(* no request and does not increase its attempt counter; a run of          *)
(* doRequest in such a step leaves the call unsettled and re-arms the      *)
(* timer, whatever the counter; and the max-retries error is raised only   *)
(* in a step taken while online.                                           *)
C17_OfflineNoAttempt ==
    [][ (kind = "api" /\ ~online) =>
          /\ httpCount' = httpCount
          /\ currentTries' = currentTries
          /\ Len(reqs') = Len(reqs)
          /\ (promise'.error = "MaxRetries" => promise.error = "MaxRetries")
          /\ ApiStart => (promise' = promise /\ timers' = timers + 1)
          /\ ApiTimer => (promise' = promise /\ timers' = timers) ]_vars

(* offline with the attempt counter at its limit: asleep, not failed *)
C17_Witness ==
    /\ kind = "api" /\ ~online
    /\ pc = "loop"
    /\ currentTries = maxRetryAPIRequest
    /\ timers > 0
    /\ promise.state = "pending"

(* C18: in uploadChunk a transport error or a timeout of an attempt        *)
(* destroys that attempt's throttle handle and fails the call (a call      *)
(* that has already settled stays as it is) without arming a retry timer   *)
(* or issuing a request; a retry timer is armed only                       *)
(* by a response whose status is not 200 (the other timer is the offline   *)
(* deferral made before any attempt).                                      *)
C18_UploadErrorsAreFinal ==
    [][ /\ \A i \in ReqIds :
              (UploadRequestError(i) \/ UploadRequestTimeout(i)) =>
                  /\ reqs'[i].throttle = "destroyed"
                  /\ IF promise.state = "pending"
                     THEN /\ promise'.state = "rejected"
                          /\ promise'.error \in {"TransportError", "Timeout"}
                     ELSE promise' = promise
                  /\ timers' = timers
                  /\ Len(reqs') = Len(reqs)
                  /\ httpCount' = httpCount
        /\ (kind = "upload" /\ timers' > timers) =>
              \/ \E i \in ReqIds : UploadResponseNot200(i)
              \/ pc = "hashing" /\ ~online
      ]_vars

(* the first attempt timed out: the call has failed with one request made  *)
(* out of maxRetryUpload, no timer is armed and the throttle is destroyed  *)
C18_Witness ==
    /\ kind = "upload"
    /\ promise.state = "rejected" /\ promise.error = "Timeout"
    /\ httpCount = 1 /\ httpCount < maxRetryUpload
    /\ timers = 0
    /\ reqs[1].throttle = "destroyed"
    /\ reqs[1].st = "destroyed"

(* the uploadChunk call has failed with the max-storage error *)
QuotaRefused == kind = "upload" /\ promise.error = "MaxStorageReached"

(* C20: when maxStorageReached is set as uploadChunk starts, the call      *)
(* fails with the max-storage error, and a call that has failed so has    *)
(* come there straight from its start: it has not been in the pause gate,  *)
(* the upload governor keeps the rate it had, no request was issued and    *)
(* no timer armed.                                                         *)
C20_QuotaRefusedAtStart ==
    [][ /\ (UploadStart /\ db["maxStorageReached"]) => QuotaRefused'
        /\ QuotaRefused' =>
              /\ pc \in {"start", "done"} /\ pc' = "done"
              /\ promise' = Rejected("MaxStorageReached", InvalidJSON)
              /\ rates' = InitialRates
              /\ httpCount' = 0 /\ reqs' = <<>> /\ timers' = 0
      ]_vars

C20_Witness ==
    /\ QuotaRefused
    /\ db["maxStorageReached"]
    /\ pc = "done"
    /\ promise.state = "rejected"
    /\ httpCount = 0 /\ rates["upload"] = InitialRate

(* an attempt of downloadChunk fails: status not 200, request error,       *)
(* response error or timeout                                               *)
DownloadAttemptFails(i) ==
    \/ DownloadResponseNot200(i)
    \/ DownloadRequestError(i)
    \/ DownloadResponseError(i)
    \/ DownloadRequestTimeout(i)

(* C19: in downloadChunk every failed attempt destroys its throttle handle *)
(* and arms a retry timer; the call is rejected only with the max-retries  *)
(* error, when maxRetryDownload requests have been issued and none of them *)
(* is still in flight; and an attempt that ends after status 200 resolves  *)
(* the call with its buffers joined in the order of their arrival.         *)
C19_DownloadRetriesThenFails ==
    [][ /\ \A i \in ReqIds :
              /\ DownloadAttemptFails(i) =>
                     /\ reqs'[i].throttle = "destroyed"
                     /\ timers' = timers + 1
                     /\ promise' = promise
              /\ DownloadEnd(i) =>
                     /\ promise'.state = "resolved"
                     /\ promise'.buffer = BufferConcat(reqs[i].res)
        /\ (kind = "download" /\ promise'.state = "rejected") =>
              /\ promise'.error = "MaxRetries"
              /\ httpCount' = maxRetryDownload
              /\ \A j \in 1..Len(reqs') : reqs'[j].st \notin {"open", "streaming"}
      ]_vars


(* the flags that apply to the transfer, as the store and the sync engine  *)
(* hold them now: one of them is set                                       *)
applicableFlagSet ==
    CASE from = "sync" /\ location # Undefined -> db["paused"] \/ locationPaused
      [] from = "sync" -> db["paused"]
      [] from = "download" -> db["downloadPaused"]
      [] from = "upload" -> db["uploadPaused"]
      [] OTHER -> db["paused"]

(* C25: a poll of the pause gate of uploadChunk or downloadChunk lets the  *)
(* transfer pass exactly when the flags were read and none of the flags    *)
(* that apply to it is set; a failed read, or a set flag, leaves it        *)
(* waiting for the next poll, and flags that do not apply are ignored.     *)
C25_GatePassesWhenClear ==
    [][ \A ok \in BOOLEAN :
          (UploadGatePoll(ok) \/ DownloadGatePoll(ok)) =>
              (pc' # "gate" <=> (ok /\ ~applicableFlagSet)) ]_vars

(* a download from "download" went through the gate and issued its first   *)
(* request while the global flag and the upload flag were set              *)
C25_Witness ==
    /\ kind = "download" /\ from = "download"
    /\ pc = "loop" /\ httpCount = 1 /\ reqs[1].st = "open"
    /\ ~reqs[1].paused
    /\ db["paused"] /\ db["uploadPaused"] /\ ~db["downloadPaused"]


expectedRate(tenths) ==
    IF from = "sync" /\ networkingSettings.obj /\ tenths > 0
    THEN (tenths * 1024) \div 10
    ELSE 122070 * 1024

(* C27: the step of uploadChunk that sets the rate gives the upload        *)
(* governor the expected rate for uploadKbps, no other step of the call    *)
(* changes it, and no step changes the download governor; the same for     *)
(* downloadChunk with downloadKbps and the two governors exchanged.        *)
C27_RateFromSettings ==
    [][ /\ kind = "upload" =>
              /\ rates'["download"] = rates["download"]
              /\ (UploadHashed \/ rates'["upload"] # rates["upload"]) =>
                    /\ UploadHashed
                    /\ rates'["upload"] = expectedRate(networkingSettings.uploadKbps)
        /\ kind = "download" =>
              /\ rates'["upload"] = rates["upload"]
              /\ ((pc = "gate" /\ pc' = "loop") \/ rates'["download"] # rates["download"]) =>
                    /\ \E ok \in BOOLEAN : DownloadGatePoll(ok)
                    /\ rates'["download"] = expectedRate(networkingSettings.downloadKbps)
      ]_vars

(* a sync download has set the download governor to floor(0.7 * 1024) and  *)
(* left the upload governor at its initial rate                            *)
C27_Witness ==
    /\ kind = "download" /\ from = "sync"
    /\ networkingSettings.downloadKbps = 7
    /\ pc = "loop"
    /\ rates["download"] = 716
    /\ rates["upload"] = InitialRate

(* C28, as stated: a step in which an attempt of a still pending API       *)
(* request ends with HTTP 200 and a body that does not parse rejects the    *)
(* request with the decode error and schedules no retry; and once the       *)
(* request has failed with the decode error, no further request is issued   *)
(* for it.                                                                  *)
C28_DecodeErrorIsFinal ==
    [][ /\ \A i \in ReqIds :
              (ApiResponseEnd(i, InvalidJSON) /\ promise.state = "pending") =>
                  /\ promise' = Rejected("DecodeError", InvalidJSON)
                  /\ timers' = timers
        /\ (kind = "api" /\ promise.error = "DecodeError") =>
              httpCount' = httpCount ]_vars

(* the attempts that have not ended: no response yet, or a body arriving *)
outstanding == {i \in ReqIds : reqs[i].st \in {"open", "streaming"}}

(* C33, as stated: in a doAPIRequest call and in a downloadChunk call at   *)
(* most one attempt is out at a time, and a failed attempt schedules one   *)
(* retry: the attempts that are out and the retries that are scheduled are *)
(* never more than one together.                                           *)
C33_OneAttemptChain ==
    (kind = "api" \/ kind = "download") => Cardinality(outstanding) + timers <= 1

(* attempt i is the one its call's latest hopes rest on: no retry is      *)
(* scheduled and no later attempt is out                                   *)
isLastHope(i) ==
    /\ timers = 0
    /\ \A j \in ReqIds : j > i => reqs[j].st \notin {"open", "streaming"}

(* C34, as stated: a step taken after the uploadChunk call has settled     *)
(* issues no request and creates no throttle handle; and a callback of an  *)
(* attempt rejects the pending call only when no retry is scheduled and no *)
(* later attempt is in flight.                                             *)
C34_SettledUploadIsQuiet ==
    [][ kind = "upload" =>
          /\ promise.state # "pending" =>
                /\ Len(reqs') = Len(reqs)
                /\ httpCount' = httpCount
          /\ \A i \in ReqIds :
                ( /\ \/ UploadRequestError(i)
                     \/ UploadRequestTimeout(i)
                     \/ \E b \in WireBodies : UploadResponseEnd(i, b)
                  /\ promise.state = "pending"
                  /\ promise'.state = "rejected" ) => isLastHope(i)
      ]_vars

----------------------------------------------------------------------------
(* Properties of the endpoint wrappers: specification SpecOps *)

(* the calls issued so far for the item with uuid u *)
shareCallsFor(u) ==
    {t \in DOMAIN shareTasks :
        share.items[t[1]].uuid = u /\ shareTasks[t].st \in {"call", "done"}}
linkCallsFor(u) ==
    {t \in DOMAIN linkTasks :
        link.items[t[1]].uuid = u /\ linkTasks[t].st \in {"call", "done"}}

(* the items listed for the folder operated on *)
Listed == IF filesThrow(contents.files) THEN <<SelfItem>> ELSE buildItems(contents)

(* a side met no failure: its discovery query and content fetch answered,  *)
(* and no pair was counted without a call                                  *)
shareClean ==
    /\ share.pc \in {"fanout", "notShared"}
    /\ \A t \in DOMAIN shareTasks : shareTasks[t].st # "skipped"
linkClean ==
    /\ link.pc \in {"loop", "fanout", "notLinked"}
    /\ \A t \in DOMAIN linkTasks : linkTasks[t].st # "skipped"

(* the operation returned after its primary endpoint answered status true *)
Succeeded(ops) ==
    /\ op \in ops
    /\ opPc = "done"
    /\ opResult.st = "returned"
    /\ primaryStatus = "true"

(* C6, as stated: whenever a wrapper has ended on a server response that   *)
(* carries a code and a message, and the message contains "invalid api     *)
(* key" or "api key not found" in any case or the code is                  *)
(* api_key_not_found, logout was called exactly once and the call failed   *)
(* with the session-invalidated error.                                     *)
C6_SessionInvalidation ==
    (opPc = "done" /\ settledBy.json
        /\ invalidatesSession(settledBy.code, settledBy.message))
    => (logoutCalls = 1 /\ opResult = Thrown("SessionInvalidated"))

(* C8, as stated: after a createFolder that created the folder and         *)
(* returned, exactly numUsers share calls and exactly numLinks link calls  *)
(* were issued for every listed item.                                      *)
C8_ExactFanOut ==
    Succeeded({"createFolder"}) =>
        \A i \in 1..Len(Listed) :
            /\ Cardinality(shareCallsFor(Listed[i].uuid)) = numUsers
            /\ Cardinality(linkCallsFor(Listed[i].uuid)) = numLinks

(* C8, amended: after a createFolder that created the folder and returned, *)
(* at most numUsers share calls and at most numLinks link calls were       *)
(* issued for every listed item; exactly numUsers when the share side met  *)
(* no failure, exactly numLinks when the link side met none.               *)
C8_FanOutAmended ==
    Succeeded({"createFolder"}) =>
        \A i \in 1..Len(Listed) :
            /\ Cardinality(shareCallsFor(Listed[i].uuid)) <= numUsers
            /\ Cardinality(linkCallsFor(Listed[i].uuid)) <= numLinks
            /\ shareClean => Cardinality(shareCallsFor(Listed[i].uuid)) = numUsers
            /\ linkClean => Cardinality(linkCallsFor(Listed[i].uuid)) = numLinks

C8_Witness ==
    /\ Succeeded({"createFolder"})
    /\ numUsers = 2 /\ numLinks = 2
    /\ Len(share.items) = 2 /\ Len(link.items) = 2
    /\ \A t \in DOMAIN shareTasks : shareTasks[t].st = "done"
    /\ \A t \in DOMAIN linkTasks : linkTasks[t].st = "done"

(* a rename call for target x was issued, carrying metadata under key k *)
sharedRenameIssued(x, k) ==
    /\ <<1, x>> \in DOMAIN shareTasks
    /\ shareTasks[<<1, x>>].st \in {"call", "done"}
    /\ shareTasks[<<1, x>>].key = k
linkedRenameIssued(x, k) ==
    /\ <<1, x>> \in DOMAIN linkTasks
    /\ linkTasks[<<1, x>>].st \in {"call", "done"}
    /\ linkTasks[<<1, x>>].blob.key = k

(* C9, as stated: after a renameFile or renameFolder whose primary         *)
(* endpoint answered status true and which returned, one shared/rename     *)
(* call per recipient under that recipient's public key and one            *)
(* linked/rename call per link under that link's own decrypted key were    *)
(* issued.                                                                 *)
C9_ExactRenameFanOut ==
    Succeeded({"renameFile", "renameFolder"}) =>
        /\ \A x \in 1..numUsers : sharedRenameIssued(x, publicKey(x))
        /\ \A x \in 1..numLinks :
              /\ x \in DOMAIN link.links
              /\ linkedRenameIssued(x, decryptFolderLinkKey(link.links[x], x))

(* C9, amended: after such a rename every shared/rename call issued        *)
(* carries metadata under its recipient's public key and every             *)
(* linked/rename call issued carries metadata under its link's own         *)
(* decrypted key, at most one per target; there is one for every recipient *)
(* when the share side met no failure, and one for every link when the     *)
(* link side met none.                                                     *)
C9_RenameFanOutAmended ==
    Succeeded({"renameFile", "renameFolder"}) =>
        /\ \A t \in DOMAIN shareTasks :
              shareTasks[t].st \in {"call", "done"} =>
                  t[1] = 1 /\ t[2] \in 1..numUsers /\ shareTasks[t].key = publicKey(t[2])
        /\ \A t \in DOMAIN linkTasks :
              linkTasks[t].st \in {"call", "done"} =>
                  /\ t[1] = 1 /\ t[2] \in 1..numLinks
                  /\ linkTasks[t].blob.key = decryptFolderLinkKey(link.links[t[2]], t[2])
        /\ shareClean => \A x \in 1..numUsers : sharedRenameIssued(x, publicKey(x))
        /\ linkClean =>
              \A x \in 1..numLinks :
                  linkedRenameIssued(x, decryptFolderLinkKey(link.links[x], x))

C9_Witness ==
    /\ Succeeded({"renameFile", "renameFolder"})
    /\ numUsers = 2 /\ numLinks = 2
    /\ \A x \in 1..2 : sharedRenameIssued(x, publicKey(x)) /\ shareTasks[<<1, x>>].st = "done"
    /\ \A x \in 1..2 : linkedRenameIssued(x, x) /\ linkTasks[<<1, x>>].st = "done"

(* C10, as stated: once the primary endpoint of a mutating operation has   *)
(* answered status true, the operation never ends with an error.           *)
C10_PropagationNeverThrows ==
    (op \in Mutating /\ primaryStatus = "true") => opResult.st # "thrown"

(* the calls of the propagation that are dispatched and not yet settled *)
callsInFlight ==
    {t \in DOMAIN shareTasks : shareTasks[t].st = "call"}
    \cup {t \in DOMAIN linkTasks : linkTasks[t].st = "call"}

(* C11, as stated: once the propagation promise has resolved, every call   *)
(* the invocation dispatched has settled.                                  *)
C11_ResolvesAfterAllSettled ==
    prop.resolved => callsInFlight = {}

(* C12, as stated for a run in which every request settles: a running     *)
(* propagation that has not resolved can still take a step, so it never    *)
(* comes to rest unresolved.                                               *)
C12_NeverStuckUnresolved ==
    (prop.pc = "running" /\ ~prop.resolved) => ENABLED <<OpsNext>>_vars

(* the wrapper ended on a parsed answer with status false that does not    *)
(* invalidate the session                                                  *)
RefusedBy(ops) ==
    /\ op \in ops
    /\ opPc = "done"
    /\ settledBy.json
    /\ ~settledBy.status
    /\ ~invalidatesSession(settledBy.code, settledBy.message)

NotFoundCodes == {"folder_not_found", "file_not_found"}

(* C13: trashItem, for a file or a folder, returns success when the server *)
(* answers status false with code folder_not_found or file_not_found (and  *)
(* the answer is not one that invalidates the session).                    *)
C13_TrashAbsentReturns ==
    (RefusedBy({"trashItem"}) /\ settledBy.code \in NotFoundCodes)
        => opResult = Returned("none")

C13_Witness ==
    /\ RefusedBy({"trashItem"})
    /\ opType = "folder"
    /\ settledBy.code = "file_not_found"
    /\ opResult = Returned("none")

(* C14, as stated: each of trashItem, moveFile, moveFolder, renameFile and *)
(* renameFolder returns success on status false with either not-found      *)
(* code, and throws the server message on every other status false.        *)
C14_EitherCodeSwallowed ==
    RefusedBy({"trashItem", "moveFile", "moveFolder", "renameFile", "renameFolder"}) =>
        IF settledBy.code \in NotFoundCodes
        THEN opResult = Returned("none")
        ELSE opResult = Thrown("ServerMessage")

(* C14, amended: on status false trashItem returns success for either      *)
(* not-found code, moveFile and renameFile for file_not_found only,        *)
(* moveFolder and renameFolder for folder_not_found only; every other      *)
(* status false answer throws the server message.                          *)
C14_OwnKindSwallowed ==
    RefusedBy({"trashItem", "moveFile", "moveFolder", "renameFile", "renameFolder"}) =>
        IF \/ op = "trashItem" /\ settledBy.code \in NotFoundCodes
           \/ op \in {"moveFile", "renameFile"} /\ settledBy.code = "file_not_found"
           \/ op \in {"moveFolder", "renameFolder"} /\ settledBy.code = "folder_not_found"
        THEN opResult = Returned("none")
        ELSE opResult = Thrown("ServerMessage")

C14_Witness ==
    /\ RefusedBy({"moveFile"})
    /\ settledBy.code = "folder_not_found"
    /\ opResult = Thrown("ServerMessage")


(* no propagation has been started for the operation *)
NoPropagation ==
    /\ prop = PropIdle
    /\ share = ShareIdle /\ shareTasks = <<>>
    /\ link = LinkIdle /\ linkTasks = <<>>

(* C21: when /v3/dir/create answers status false (and the answer does not  *)
(* invalidate the session), createFolder gives the permit back and returns *)
(* data.existsUUID if the answer has one, throws the server message if it  *)
(* has none; in both cases no propagation request is issued.               *)
C21_ExistingFolderReturned ==
    RefusedBy({"createFolder"}) =>
        /\ opResult = IF settledBy.existsUUID # Undefined
                      THEN Returned(settledBy.existsUUID)
                      ELSE Thrown("ServerMessage")
        /\ sem = SemFree
        /\ NoPropagation

C21_Witness ==
    /\ RefusedBy({"createFolder"})
    /\ settledBy.existsUUID = "x1"
    /\ opResult = Returned("x1")
    /\ sem = SemFree


(* C22: in the link fan-out for a file item (moveFile), a call is issued   *)
(* only for a link whose linkKey decrypted to a key, and it carries        *)
(* metadata encrypted under that link's own key.                           *)
C22_UndecryptableLinkSkipped ==
    (op = "moveFile" /\ link.pc = "loop") =>
        \A t \in DOMAIN linkTasks :
            linkTasks[t].st \in {"call", "done"} =>
                /\ link.links[t[2]] = "ok"
                /\ linkTasks[t].key = decryptFolderLinkKey(link.links[t[2]], t[2])
                /\ linkTasks[t].blob.key = decryptFolderLinkKey(link.links[t[2]], t[2])

(* C29: in createFolder, moveFile, moveFolder, renameFile and renameFolder  *)
(* no propagation is started, and so no propagation request issued, unless *)
(* the primary endpoint has answered status true: not while it is pending, *)
(* not when apiRequest failed, and not on status false, the answers taken  *)
(* for "already gone" included.                                            *)
C29_NoPropagationUnlessSuccess ==
    (op \in Mutating /\ primaryStatus # "true") => NoPropagation

(* renameFolder got folder_not_found, returned, and propagated nothing *)
C29_Witness ==
    /\ RefusedBy({"renameFolder"})
    /\ settledBy.code = "folder_not_found"
    /\ opResult = Returned("none")
    /\ NoPropagation

(* C31, as stated: when every request settles, a createFolder call that    *)
(* holds the permit of createFolderSemaphore eventually gives it back,     *)
(* whatever /v3/dir/shared and /v3/dir/linked answer for the parent.       *)
C31_GateEventuallyReleased ==
    (op = "createFolder" /\ sem.counter > 0) ~> (sem = SemFree)

----------------------------------------------------------------------------
(* Properties of concurrent createFolder calls: specification SpecFolder *)

(* C2: at most one folder exists server-side, and every call that has      *)
(* returned returned the UUID of that folder; so when all calls have       *)
(* returned exactly one folder exists and all returned the same UUID.      *)
C2_OneFolderSameUuid ==
    /\ Cardinality(serverFolders) <= 1
    /\ \A c \in Calls :
          cf[c].result.st = "returned" => serverFolders = {cf[c].result.uuid}

C2_Witness ==
    /\ \A c \in Calls : cf[c].pc = "done" /\ cf[c].result.st = "returned"
    /\ \E c \in Calls : cf[c].result.uuid # uuidOf(c)
    /\ \E c \in Calls : cf[c].result.uuid = uuidOf(c)

activeCalls == {c \in Calls : cf[c].pc \in Holding}

(* C30: the permits taken are as many as the calls between acquire and     *)
(* release, so every call that has returned or thrown has given back       *)
(* exactly the permit it took; the free permits never exceed 1 and are 1,  *)
(* with nobody queued, whenever no call is active; the queue holds just   *)
(* the calls that wait.                                                    *)
C30_ReleasedOncePerCall ==
    /\ sem.counter = Cardinality(activeCalls)
    /\ SemMax - sem.counter \in 0..1
    /\ (\A c \in Calls : cf[c].pc \in {"idle", "done"}) => sem = SemFree
    /\ \A c \in Calls : cf[c].pc = "waiting" <=>
                           \E k \in 1..Len(sem.waiting) : sem.waiting[k] = c

(* three calls have ended, one by a failed encryption, one by a rejected   *)
(* propagation, one with the existing folder's uuid; the permit is free    *)
C30_Witness ==
    /\ sem = SemFree
    /\ \E c \in Calls, d \in Calls, e \in Calls :
          /\ cf[c].pc = "done" /\ cf[c].result = Thrown("CryptoError")
          /\ cf[d].pc = "done" /\ cf[d].result = Thrown("StoreError")
          /\ cf[e].pc = "done" /\ cf[e].result = Returned(uuidOf(d))

----------------------------------------------------------------------------
(* Properties of the item lists: specification SpecItems *)

(* the descendants listed: the list without its first entry *)
descendants == IF listing.items = <<>> THEN <<>> ELSE Tail(listing.items)
listedAt(u) == {j \in 1..Len(descendants) : descendants[j].uuid = u}

(* the entry gave a name to list it under *)
decryptsToName(e) == e.decrypts = "ok" /\ striptags(e.name) # <<>>
(* a folder entry the lists are meant to hold: not the folder itself and   *)
(* not under "base"                                                        *)
isDescendant(d) == d.uuid # ItemUuid /\ d.parent # "base"

(* C23: when itemsToShare or itemsToLink has been built for a folder, a    *)
(* file or subfolder entry that does not decrypt is not in the list, at    *)
(* whatever position it stands in the contents, and every file or          *)
(* subfolder entry that decrypts is in it under its own name with tags     *)
(* stripped.                                                               *)
C23_UndecryptableEntriesSkipped ==
    listing.pc \in {"built", "thrown"} =>
        /\ listing.pc = "built"
        /\ \A k \in DOMAIN listing.contents.files :
              LET f == listing.contents.files[k]
              IN  IF decryptsToName(f)
                  THEN \E j \in listedAt(f.uuid) :
                          /\ descendants[j].type = "file"
                          /\ descendants[j].name = striptags(f.name)
                  ELSE listedAt(f.uuid) = {}
        /\ \A k \in DOMAIN listing.contents.folders :
              LET d == listing.contents.folders[k]
              IN  isDescendant(d) =>
                     IF decryptsToName(d)
                     THEN \E j \in listedAt(d.uuid) :
                             /\ descendants[j].type = "folder"
                             /\ descendants[j].name = striptags(d.name)
                     ELSE listedAt(d.uuid) = {}


(* the positions of the folders among the descendants listed *)
listedFolders == {j \in 1..Len(descendants) : descendants[j].type = "folder"}

(* the parent the contents give for the entry listed at j *)
realParent(j) ==
    LET c == listing.contents
        es == {c.files[k] : k \in DOMAIN c.files} \cup {c.folders[k] : k \in DOMAIN c.folders}
    IN  (CHOOSE e \in es : e.uuid = descendants[j].uuid).parent

(* C24: itemsToShare of a folder starts with the folder itself under its   *)
(* real parent; of the descendant folders listed the first has parent      *)
(* "none", and every other listed descendant has the parent the contents   *)
(* give for it.                                                            *)
C24_FirstListedFolderIsRoot ==
    (listing.pc = "built" /\ listing.side = "share") =>
        /\ listing.items[1] = SelfItem
        /\ \A j \in 1..Len(descendants) :
              descendants[j].parent =
                  IF j \in listedFolders /\ \A i \in listedFolders : j <= i
                  THEN "none"
                  ELSE realParent(j)

----------------------------------------------------------------------------
(* Properties of concurrent transfers: specification SpecChunks *)

(* the call is a sync transfer in direction dir with a limit configured,  *)
(* and has an attempt in flight                                            *)
limitedInFlight(c, dir) ==
    /\ chunkCalls[c].pc = "inflight"
    /\ chunkCalls[c].dir = dir
    /\ chunkCalls[c].from = "sync"
    /\ networkingSettings.obj
    /\ kbpsOf(networkingSettings, dir) > 0

(* C32, as stated: while a sync transfer with a limit configured has an    *)
(* attempt in flight, the rate of its direction's governor is              *)
(* floor(Kbps * 1024), whatever the other calls do.                        *)
C32_RateStaysWhileInFlight ==
    \A c \in ChunkIds, dir \in {"upload", "download"} :
        limitedInFlight(c, dir) =>
            rates[dir] = floorTimes1024(kbpsOf(networkingSettings, dir))

====
